---------------------------- MODULE Spec2Model ----------------------------
(***************************************************************************)
(* A model of vba-edit's synchronization core (src/src/vba_edit/           *)
(* office_vba.py): the component classifier and header codec, the export   *)
(* and import pipelines and the handling of watched file events.           *)
(*                                                                         *)
(* Text is a sequence of tokens.  A token is one character class of the    *)
(* Python string it stands for: SP (a blank), NL (a line break), ATTR (the *)
(* literal prefix "Attribute VB_"), or any other string, which stands for  *)
(* a run of non-blank characters that does not begin with that prefix.     *)
(***************************************************************************)
EXTENDS Integers, Sequences, FiniteSets, TLC

VARIABLES
    fn,          \* codec harness: the function under call
    arg,         \* codec harness: its arguments
    ret,         \* codec harness: its results
    live,        \* the host's VBComponents: name -> [kind, header, body]
    files,       \* the VBA directory: path -> text
    saveHeaders, \* handler.save_headers
    session,     \* the document as the host sees it: "open", "closed", "lost"
    calls,       \* host calls issued by the operation that ran last
    lastOp,      \* the operation that ran last and its outcome
    events,      \* file changes the watcher has not reported yet
    edits,       \* number of user changes to the VBA directory so far
    watching,    \* the edit command's watch loop is running
    phase,       \* round-trip scenario: the commands run so far
    snap,        \* round-trip scenario: the VBA directory after the first export
    pc,          \* watch loop: where the loop stands
    clock,       \* watch loop: seconds since the last connection check
    batch        \* watch loop: the changes of the current poll not handled yet

vars == <<fn, arg, ret, live, files, saveHeaders, session, calls, lastOp, events, edits,
          watching, phase, snap, pc, clock, batch>>

codecVars == <<fn, arg, ret>>
loopVars == <<pc, clock, batch>>
projectVars == <<live, files, saveHeaders, session, calls, lastOp, events, edits, watching,
                 phase, snap, pc, clock, batch>>

----------------------------------------------------------------------------
(* Bounds of the model *)

MaxLen == 6
MaxHeaderLen == 3
MaxBodyLen == 2
MaxHeaderLines == 2
MaxEdits == 1

----------------------------------------------------------------------------
(* Text *)

SP == "SP"
NL == "NL"
ATTR == "Attribute VB_"

\* All texts of at most n tokens over alphabet S
TextsUpTo(S, n) == UNION {[1..k -> S] : k \in 0..n}

IsSpace(c) == c \in {SP, NL}

Min(S) == CHOOSE x \in S : \A y \in S : x <= y

Max(S) == CHOOSE x \in S : \A y \in S : x >= y

\* str.lstrip()
LStrip(t) ==
    IF \A i \in 1..Len(t) : IsSpace(t[i]) THEN <<>>
    ELSE LET k == CHOOSE i \in 1..Len(t) :
                      ~IsSpace(t[i]) /\ \A j \in 1..(i - 1) : IsSpace(t[j])
         IN SubSeq(t, k, Len(t))

\* str.rstrip()
RStrip(t) ==
    IF \A i \in 1..Len(t) : IsSpace(t[i]) THEN <<>>
    ELSE LET k == CHOOSE i \in 1..Len(t) :
                      ~IsSpace(t[i]) /\ \A j \in (i + 1)..Len(t) : IsSpace(t[j])
         IN SubSeq(t, 1, k)

\* str.strip()
Strip(t) == RStrip(LStrip(t))

\* str.splitlines(): a final line break ends the last line and opens no new one
RECURSIVE SplitLines(_)
SplitLines(t) ==
    IF t = <<>> THEN <<>>
    ELSE IF \A i \in 1..Len(t) : t[i] # NL THEN <<t>>
    ELSE LET k == CHOOSE i \in 1..Len(t) : t[i] = NL /\ \A j \in 1..(i - 1) : t[j] # NL
         IN <<SubSeq(t, 1, k - 1)>> \o SplitLines(SubSeq(t, k + 1, Len(t)))

\* "\n".join(lines)
RECURSIVE Join(_)
Join(lines) ==
    IF lines = <<>> THEN <<>>
    ELSE IF Len(lines) = 1 THEN lines[1]
    ELSE lines[1] \o <<NL>> \o Join(Tail(lines))

\* line.strip().startswith("Attribute VB_")
IsAttrLine(line) == LET s == Strip(line) IN s # <<>> /\ s[1] = ATTR

----------------------------------------------------------------------------
(* Component kinds *)

STANDARD == "STANDARD"
CLASS == "CLASS"
FORM == "FORM"
DOCUMENT == "DOCUMENT"
VBAModuleType == {DOCUMENT, CLASS, STANDARD, FORM}
ValueError == "ValueError"

----------------------------------------------------------------------------
(* Component names.  A name is a sequence of tokens: a leading word and the *)
(* characters that follow it, so that "Sheet1" is <<"Sheet", "1">>.         *)

\* VBADocumentNames (the entries written in ASCII)
EXCEL_WORKBOOK_NAMES ==
    {<<"ThisWorkbook">>, <<"DieseArbeitsmappe">>, <<"CeClasseur">>, <<"EstaLista">>, <<"QuestoFoglio">>}

EXCEL_SHEET_PREFIXES == {"Sheet", "Tabelle", "Feuil", "Hoja", "Foglio", "Planilha"}

WORD_DOCUMENT_NAMES ==
    {<<"ThisDocument">>, <<"DiesesDokument">>, <<"CeDocument">>, <<"EsteDocumento">>, <<"QuestoDocumento">>}

Digits == {"0", "1", "2"}

\* str.isdigit(): non-empty and all digits
IsDigit(s) == s # <<>> /\ \A i \in 1..Len(s) : s[i] \in Digits

is_document_module(name) ==
    \/ name \in EXCEL_WORKBOOK_NAMES
    \/ name \in WORD_DOCUMENT_NAMES
    \/ \E prefix \in EXCEL_SHEET_PREFIXES :
          /\ name # <<>>
          /\ name[1] = prefix
          /\ IsDigit(Tail(name))

----------------------------------------------------------------------------
(* Header codec *)

\* str.lower() on the values an attribute takes in the model
Lower(w) == CASE w \in {"True", "TRUE", "true"} -> "true"
              [] w \in {"False", "FALSE", "false"} -> "false"
              [] OTHER -> w

\* \w+ matches at a token that is neither blank nor punctuation
IsWord(c) == ~IsSpace(c) /\ c \notin {"=", "QUOTE", ATTR}

\* The positions where r"Attribute VB_<key> = (\w+)" matches in text t
AttrMatches(t, key) ==
    {i \in 1..(Len(t) - 5) :
        /\ t[i] = ATTR /\ t[i + 1] = key /\ t[i + 2] = SP
        /\ t[i + 3] = "=" /\ t[i + 4] = SP /\ IsWord(t[i + 5])}


\* re.search(...).group(1) of the first match, lowered; "" when there is none
FirstAttrValue(t, key) ==
    IF AttrMatches(t, key) = {} THEN ""
    ELSE Lower(t[Min(AttrMatches(t, key)) + 5])

determine_cls_type(header) ==
    IF /\ AttrMatches(header, "PredeclaredId") # {}
       /\ AttrMatches(header, "Exposed") # {}
       /\ FirstAttrValue(header, "PredeclaredId") = "true"
       /\ FirstAttrValue(header, "Exposed") = "true"
    THEN DOCUMENT
    ELSE CLASS

\* The for loop of split_vba_content from line i on: the index of the last
\* line of the first run of attribute lines (0 when there is none)
RECURSIVE LastAttrIdx(_, _, _)
LastAttrIdx(lines, i, last) ==
    IF i > Len(lines) THEN last
    ELSE IF IsAttrLine(lines[i]) THEN LastAttrIdx(lines, i + 1, i)
    ELSE IF last >= 1 THEN last
    ELSE LastAttrIdx(lines, i + 1, last)

\* A loop without the break: the last attribute line anywhere
RECURSIVE LastAttrIdxNoBreak(_, _, _)
LastAttrIdxNoBreak(lines, i, last) ==
    IF i > Len(lines) THEN last
    ELSE IF IsAttrLine(lines[i]) THEN LastAttrIdxNoBreak(lines, i + 1, i)
    ELSE LastAttrIdxNoBreak(lines, i + 1, last)

split_vba_content_nobreak(content) ==
    IF Strip(content) = <<>> THEN <<<<>>, <<>>>>
    ELSE LET lines == SplitLines(content)
             last == LastAttrIdxNoBreak(lines, 1, 0)
         IN IF last = 0 THEN <<<<>>, content>>
            ELSE <<Strip(Join(SubSeq(lines, 1, last))),
                   Strip(Join(SubSeq(lines, last + 1, Len(lines))))>>

\* Returns <<header, code>>
split_vba_content(content) ==
    IF Strip(content) = <<>> THEN <<<<>>, <<>>>>
    ELSE LET lines == SplitLines(content)
             last == LastAttrIdx(lines, 1, 0)
         IN IF last = 0 THEN <<<<>>, content>>
            ELSE <<Strip(Join(SubSeq(lines, 1, last))),
                   Strip(Join(SubSeq(lines, last + 1, Len(lines))))>>

\* The line f'Attribute VB_<key> = <value>'
AttrLine(key, value) == <<ATTR, key, SP, "=", SP>> \o value

\* '"' + name + '"'
Quoted(name) == <<"QUOTE">> \o name \o <<"QUOTE">>

create_minimal_header(name, module_type) ==
    IF module_type = CLASS THEN
        Join(<< <<"VERSION 1.0 CLASS">>,
                <<"BEGIN">>,
                <<SP, SP, "MultiUse = -1  'True">>,
                <<"END">>,
                AttrLine("Name", Quoted(name)),
                AttrLine("GlobalNameSpace", <<"False">>),
                AttrLine("Creatable", <<"False">>),
                AttrLine("PredeclaredId", <<"False">>),
                AttrLine("Exposed", <<"False">>) >>)
    ELSE IF module_type = FORM THEN
        Join(<< <<"VERSION 5.00">>,
                <<"Begin {C62A69F0-16DC-11CE-9E98-00AA00574A4F}", SP>> \o name,
                <<SP, SP, SP, "Caption         =   ">> \o Quoted(name),
                <<SP, SP, SP, "ClientHeight    =   3000">>,
                <<SP, SP, SP, "ClientLeft      =   100">>,
                <<SP, SP, SP, "ClientTop       =   400">>,
                <<SP, SP, SP, "ClientWidth     =   4000">>,
                <<SP, SP, SP, "OleObjectBlob   =   ", "QUOTE">> \o name \o <<".frx", "QUOTE", ":0000">>,
                <<SP, SP, SP, "StartUpPosition =   1  'CenterOwner">>,
                <<"End">>,
                AttrLine("Name", Quoted(name)),
                AttrLine("GlobalNameSpace", <<"False">>),
                AttrLine("Creatable", <<"False">>),
                AttrLine("PredeclaredId", <<"True">>),
                AttrLine("Exposed", <<"False">>) >>)
    ELSE AttrLine("Name", Quoted(name))

\* A prepare that synthesizes a header for every kind
prepare_import_content_anykind(name, module_type, header, code) ==
    LET h == IF header = <<>> THEN create_minimal_header(name, module_type) ELSE header
    IN IF h # <<>> THEN h \o <<NL>> \o code \o <<NL>> ELSE code \o <<NL>>

\* A prepare that puts no line break between header and code
prepare_import_content_nosep(name, module_type, header, code) ==
    LET h == IF header = <<>> /\ module_type = STANDARD
             THEN create_minimal_header(name, module_type)
             ELSE header
    IN IF h # <<>> THEN h \o code \o <<NL>> ELSE code \o <<NL>>

prepare_import_content(name, module_type, header, code) ==
    LET h == IF header = <<>> /\ module_type = STANDARD
             THEN create_minimal_header(name, module_type)
             ELSE header
    IN IF h # <<>> THEN h \o <<NL>> \o code \o <<NL>> ELSE code \o <<NL>>


----------------------------------------------------------------------------
(* Files of the VBA directory.  A path is [dir, stem, ext]: Path.stem is   *)
(* stem and Path.suffix is ext.                                            *)

ROOT == "."

PathOf(stem, ext) == [dir |-> ROOT, stem |-> stem, ext |-> ext]

\* Path.with_suffix(ext)
with_suffix(path, ext) == [path EXCEPT !.ext = ext]

\* str.lower() on the suffixes of the model
LowerExt(e) == CASE e = ".CLS" -> ".cls"
                 [] e = ".BAS" -> ".bas"
                 [] e = ".FRM" -> ".frm"
                 [] OTHER -> e

\* fs is the directory the function reads the header file from
get_module_type(file_path, fs) ==
    LET suffix == LowerExt(file_path.ext)
        name == file_path.stem
        header_file == with_suffix(file_path, ".header")
    IN IF is_document_module(name) THEN DOCUMENT
       ELSE IF suffix = ".bas" THEN STANDARD
       ELSE IF suffix = ".frm" THEN FORM
       ELSE IF suffix = ".cls" THEN
           (IF header_file \in DOMAIN fs THEN determine_cls_type(fs[header_file]) ELSE CLASS)
       ELSE ValueError


----------------------------------------------------------------------------
(* Idle values *)

EmptyMap == [x \in {} |-> x]

NoArg == [content |-> <<>>, name |-> <<>>, kind |-> STANDARD, header |-> <<>>,
          code |-> <<>>, path |-> PathOf(<<>>, "")]

NoRet == [done |-> FALSE, split |-> FALSE, header |-> <<>>, code |-> <<>>,
          content |-> <<>>, kind |-> ""]

NoOp == [op |-> "none", path |-> PathOf(<<>>, ""), overwrite |-> FALSE, result |-> "",
         written |-> {}, skipped |-> {}, failed |-> {}, imported |-> {}, rejected |-> {},
         saved |-> FALSE, log |-> <<>>]

NoSnap == [files |-> EmptyMap, live |-> EmptyMap]

ProjectIdle ==
    /\ live = EmptyMap
    /\ files = EmptyMap
    /\ saveHeaders = FALSE
    /\ session = "closed"
    /\ calls = {}
    /\ lastOp = NoOp
    /\ events = {}
    /\ edits = 0
    /\ watching = FALSE
    /\ phase = "none"
    /\ snap = NoSnap
    /\ pc = "start"
    /\ clock = 0
    /\ batch = <<>>

CodecIdle == fn = "none" /\ arg = NoArg /\ ret = NoRet

----------------------------------------------------------------------------
(* The codec and the classifier called on their own, on every input of a   *)
(* bounded set.                                                            *)

Alphabet == {ATTR, "x", SP, NL}

CodecNames == {<<"Utils">>}

ClassifyStems ==
    {<<"test">>, <<"ThisWorkbook">>, <<"ThisDocument">>, <<"Sheet", "1">>, <<"Sheet">>,
     <<"Sheet", "1", "a">>, <<"Tabelle", "1", "2">>, <<"Data">>}

ClassifyExts == {".bas", ".cls", ".frm", ".CLS", ".txt", ".header", ""}

HeaderLines ==
    {AttrLine("Name", Quoted(<<"test">>)),
     AttrLine("PredeclaredId", <<"True">>), AttrLine("PredeclaredId", <<"False">>),
     AttrLine("Exposed", <<"TRUE">>), AttrLine("Exposed", <<"False">>)}

ClassifyHeaders == {Join(ls) : ls \in UNION {[1..k -> HeaderLines] : k \in 0..MaxHeaderLines}}

CodecInit ==
    /\ ret = NoRet
    /\ \/ /\ fn = "split"
          /\ \E c \in TextsUpTo(Alphabet, MaxLen) : arg = [NoArg EXCEPT !.content = c]
          /\ files = EmptyMap
       \/ /\ fn = "prepare"
          /\ \E n \in CodecNames, k \in VBAModuleType,
                h \in TextsUpTo(Alphabet, MaxHeaderLen), c \in TextsUpTo(Alphabet, MaxBodyLen) :
                arg = [NoArg EXCEPT !.name = n, !.kind = k, !.header = h, !.code = c]
          /\ files = EmptyMap
       \/ /\ fn = "classify"
          /\ \E st \in ClassifyStems, e \in ClassifyExts :
                /\ arg = [NoArg EXCEPT !.path = PathOf(st, e)]
                /\ \/ files = EmptyMap
                   \/ \E h \in ClassifyHeaders : files = (PathOf(st, ".header") :> h)
    /\ live = EmptyMap
    /\ saveHeaders = FALSE
    /\ session = "closed"
    /\ calls = {}
    /\ lastOp = NoOp
    /\ events = {}
    /\ edits = 0
    /\ watching = FALSE
    /\ phase = "none"
    /\ snap = NoSnap
    /\ pc = "start"
    /\ clock = 0
    /\ batch = <<>>

CallSplit ==
    /\ fn = "split" /\ ~ret.done
    /\ LET r == split_vba_content(arg.content)
       IN ret' = [ret EXCEPT !.done = TRUE, !.header = r[1], !.code = r[2]]
    /\ UNCHANGED <<fn, arg>>
    /\ UNCHANGED projectVars

CallPrepare ==
    /\ fn = "prepare" /\ ~ret.done
    /\ ret' = [ret EXCEPT !.done = TRUE,
                          !.content = prepare_import_content(arg.name, arg.kind, arg.header, arg.code)]
    /\ UNCHANGED <<fn, arg>>
    /\ UNCHANGED projectVars

\* split_vba_content applied to what prepare_import_content returned
CallSplitPrepared ==
    /\ fn = "prepare" /\ ret.done /\ ~ret.split
    /\ LET r == split_vba_content(ret.content)
       IN ret' = [ret EXCEPT !.split = TRUE, !.header = r[1], !.code = r[2]]
    /\ UNCHANGED <<fn, arg>>
    /\ UNCHANGED projectVars

CallClassify ==
    /\ fn = "classify" /\ ~ret.done
    /\ ret' = [ret EXCEPT !.done = TRUE, !.kind = get_module_type(arg.path, files)]
    /\ UNCHANGED <<fn, arg>>
    /\ UNCHANGED projectVars

CodecNext == CallSplit \/ CallPrepare \/ CallSplitPrepared \/ CallClassify

SpecCodec == CodecInit /\ [][CodecNext]_vars


----------------------------------------------------------------------------
(* Claims about the codec and the classifier (checked under SpecCodec) *)

Lines(t) == SplitLines(t)

\* The indices of the attribute lines of a sequence of lines
AttrIdx(ls) == {i \in 1..Len(ls) : IsAttrLine(ls[i])}

\* The last line of the run of attribute lines that starts at the first
\* attribute line (ls has one)
RunEnd(ls) ==
    LET first == Min(AttrIdx(ls))
    IN CHOOSE j \in first..Len(ls) :
          /\ \A i \in first..j : IsAttrLine(ls[i])
          /\ (j = Len(ls) \/ ~IsAttrLine(ls[j + 1]))

SplitDone == fn = "split" /\ ret.done
RoundTripDone == fn = "prepare" /\ ret.done /\ ret.split
PrepareDone == fn = "prepare" /\ ret.done /\ ~ret.split
ClassifyDone == fn = "classify" /\ ret.done

(* C5, as stated: for every name, kind, header H and body B,               *)
(* split_vba_content(prepare_import_content(name, kind, H, B)) is (H, B)   *)
(* up to trailing whitespace.                                              *)
C5_RoundTripAnyInput ==
    RoundTripDone =>
        /\ RStrip(ret.header) = RStrip(arg.header)
        /\ RStrip(ret.code) = RStrip(arg.code)

\* H and B as _read_header_file and _read_code_file deliver them
C5_Stripped == arg.header = Strip(arg.header) /\ arg.code = Strip(arg.code)

\* No header and nothing to synthesize: the body must hold no attribute line
C5_NoHeaderCase ==
    /\ arg.header = <<>>
    /\ arg.kind # STANDARD
    /\ AttrIdx(Lines(arg.code)) = {}

\* A header whose first run of attribute lines ends at its last line,
\* followed by a body that does not begin with an attribute line
C5_HeaderCase ==
    /\ arg.header # <<>>
    /\ AttrIdx(Lines(arg.header)) # {}
    /\ RunEnd(Lines(arg.header)) = Len(Lines(arg.header))
    /\ (arg.code = <<>> \/ ~IsAttrLine(Lines(arg.code)[1]))

(* C5, amended: for stripped H and B, where either H is empty, the kind is *)
(* not Standard and B holds no attribute line, or H is non-empty, its      *)
(* first run of attribute lines ends at its last line and B does not begin *)
(* with an attribute line, splitting the prepared content gives back       *)
(* (H, B) up to trailing whitespace.                                       *)
C5_RoundTrip ==
    (RoundTripDone /\ C5_Stripped /\ (C5_NoHeaderCase \/ C5_HeaderCase)) =>
        /\ RStrip(ret.header) = RStrip(arg.header)
        /\ RStrip(ret.code) = RStrip(arg.code)

C5_Witness ==
    /\ RoundTripDone /\ C5_Stripped /\ C5_HeaderCase
    /\ arg.code # <<>>
    /\ Len(Lines(arg.header)) >= 2
    /\ ret.header = arg.header /\ ret.code = arg.code

(* C8, as stated: the header returned by split_vba_content is exactly the  *)
(* run of attribute lines at the start of the content, so each of its      *)
(* lines is an attribute line, and the body is everything after that run   *)
(* (both read up to surrounding whitespace); empty content, read as blank  *)
(* content, gives two empty strings; other content without an attribute    *)
(* line gives an empty header and the whole content as body.               *)
C8_HeaderIsLeadingAttributeRun ==
    SplitDone =>
        LET ls == Lines(arg.content)
            lead == {j \in 0..Len(ls) : \A i \in 1..j : IsAttrLine(ls[i])}
            k == CHOOSE j \in lead : \A m \in lead : m <= j
        IN /\ \A i \in 1..Len(Lines(ret.header)) : IsAttrLine(Lines(ret.header)[i])
           /\ Strip(arg.content) = <<>> => (ret.header = <<>> /\ ret.code = <<>>)
           /\ (Strip(arg.content) # <<>> /\ AttrIdx(ls) = {}) =>
                 (ret.header = <<>> /\ ret.code = arg.content)
           /\ AttrIdx(ls) # {} =>
                 /\ ret.header = Strip(Join(SubSeq(ls, 1, k)))
                 /\ ret.code = Strip(Join(SubSeq(ls, k + 1, Len(ls))))

(* C8, amended: blank content (empty or only whitespace) gives two empty   *)
(* strings; other content without an attribute line gives an empty header  *)
(* and the content unchanged as body; otherwise the header is everything   *)
(* from the start of the content, lines that precede the first attribute   *)
(* line included, to the end of the first contiguous run of attribute      *)
(* lines, and the body is everything after that run, attribute lines that  *)
(* occur later included, both stripped of surrounding whitespace.          *)
C8_SplitHeaderBody ==
    SplitDone =>
        LET ls == Lines(arg.content)
        IN /\ (\A i \in 1..Len(arg.content) : IsSpace(arg.content[i])) =>
                 (ret.header = <<>> /\ ret.code = <<>>)
           /\ ((\E i \in 1..Len(arg.content) : ~IsSpace(arg.content[i])) /\ AttrIdx(ls) = {}) =>
                 (ret.header = <<>> /\ ret.code = arg.content)
           /\ AttrIdx(ls) # {} =>
                 /\ ret.header = Strip(Join(SubSeq(ls, 1, RunEnd(ls))))
                 /\ ret.code = Strip(Join(SubSeq(ls, RunEnd(ls) + 1, Len(ls))))

\* An attribute line after the end of the header stays in the body
C8_Witness ==
    /\ SplitDone
    /\ ret.header # <<>>
    /\ \E i \in AttrIdx(Lines(arg.content)) : i > RunEnd(Lines(arg.content))
    /\ AttrIdx(Lines(ret.code)) # {}

(* C9: prepare_import_content returns, for an empty header and kind        *)
(* Standard, the line Attribute VB_Name = "<name>" followed by the body;   *)
(* for a non-empty header, that header followed by the body; for an empty  *)
(* header and another kind, the body alone.  Each part ends with one line  *)
(* break.                                                                  *)
C9_PrepareImportContent ==
    PrepareDone =>
        /\ (arg.header = <<>> /\ arg.kind = STANDARD) =>
              ret.content = <<ATTR, "Name", SP, "=", SP, "QUOTE">> \o arg.name
                               \o <<"QUOTE", NL>> \o arg.code \o <<NL>>
        /\ arg.header # <<>> =>
              ret.content = arg.header \o <<NL>> \o arg.code \o <<NL>>
        /\ (arg.header = <<>> /\ arg.kind # STANDARD) =>
              ret.content = arg.code \o <<NL>>

C9_Witness ==
    /\ PrepareDone
    /\ arg.header = <<>> /\ arg.kind = STANDARD /\ arg.code # <<>>
    /\ Len(Lines(ret.content)) = 2
    /\ IsAttrLine(Lines(ret.content)[1])

SupportedExts == {".bas", ".cls", ".frm"}

(* C6: get_module_type returns one of Standard, Class, Form, Document for  *)
(* every file name with extension .bas, .cls or .frm, and fails for every  *)
(* file name with another extension, whatever its stem.                    *)
C6_ClassificationTotality ==
    ClassifyDone =>
        /\ LowerExt(arg.path.ext) \in SupportedExts => ret.kind \in VBAModuleType
        /\ LowerExt(arg.path.ext) \notin SupportedExts => ret.kind = ValueError

\* The header declares both attributes True
DeclaresDocument(h) ==
    /\ \E i \in AttrMatches(h, "PredeclaredId") : Lower(h[i + 5]) = "true"
    /\ \E i \in AttrMatches(h, "Exposed") : Lower(h[i + 5]) = "true"

(* C7: get_module_type is Standard for a .bas file and Form for a .frm     *)
(* file whatever the name; for a .cls file it is Document exactly when the *)
(* name is a known document-module name or the header declares both        *)
(* VB_PredeclaredId = True and VB_Exposed = True, and Class otherwise.     *)
C7_ClassificationMapping ==
    ClassifyDone =>
        LET e == LowerExt(arg.path.ext)
            hf == with_suffix(arg.path, ".header")
            isDoc == \/ is_document_module(arg.path.stem)
                     \/ (hf \in DOMAIN files /\ DeclaresDocument(files[hf]))
        IN /\ e = ".bas" => ret.kind = STANDARD
           /\ e = ".frm" => ret.kind = FORM
           /\ e = ".cls" => ret.kind = (IF isDoc THEN DOCUMENT ELSE CLASS)


----------------------------------------------------------------------------
(* The host: the VBComponents collection of the open document.  A live     *)
(* component is [type, header, body]; header is what the host writes in    *)
(* front of the body when it exports the component.                        *)

VBEXT_CT_STDMODULE == 1
VBEXT_CT_CLASSMODULE == 2
VBEXT_CT_MSFORM == 3
VBEXT_CT_DOCUMENT == 100

\* VBATypes.TYPE_INFO[type]["extension"]
Extension(type) == CASE type = VBEXT_CT_STDMODULE -> ".bas"
                     [] type = VBEXT_CT_CLASSMODULE -> ".cls"
                     [] type = VBEXT_CT_MSFORM -> ".frm"
                     [] type = VBEXT_CT_DOCUMENT -> ".cls"

\* The header of a class or document module as the host exports it
ClassHeader(name, predeclared, exposed) ==
    Join(<< <<"VERSION 1.0 CLASS">>,
            <<"BEGIN">>,
            <<SP, SP, "MultiUse = -1  'True">>,
            <<"END">>,
            AttrLine("Name", Quoted(name)),
            AttrLine("GlobalNameSpace", <<"False">>),
            AttrLine("Creatable", <<"False">>),
            AttrLine("PredeclaredId", <<predeclared>>),
            AttrLine("Exposed", <<exposed>>) >>)

HostHeader(name, type) ==
    CASE type = VBEXT_CT_STDMODULE -> AttrLine("Name", Quoted(name))
      [] type = VBEXT_CT_CLASSMODULE -> ClassHeader(name, "False", "True")
      [] type = VBEXT_CT_MSFORM -> create_minimal_header(name, FORM)
      [] type = VBEXT_CT_DOCUMENT -> ClassHeader(name, "True", "True")

\* component.CodeModule.CountOfLines
CountOfLines(body) == Len(SplitLines(body))

\* component.Export(file): the header, then the body
HostExport(c) == IF c.body = <<>> THEN c.header \o <<NL>>
                 ELSE c.header \o <<NL>> \o c.body \o <<NL>>

\* The name in the first Attribute VB_Name = "<name>" of a text
NamePrefix == <<ATTR, "Name", SP, "=", SP, "QUOTE">>

NameStarts(t) == {i \in 1..(Len(t) - 6) : SubSeq(t, i, i + 5) = NamePrefix}

RECURSIVE UpToQuote(_)
UpToQuote(t) == IF t = <<>> \/ Head(t) = "QUOTE" THEN <<>>
                ELSE <<Head(t)>> \o UpToQuote(Tail(t))

HostName(t) == UpToQuote(SubSeq(t, Min(NameStarts(t)) + 6, Len(t)))

\* The type the host gives a component it imports from a file
HostType(t) ==
    LET ls == SplitLines(t)
    IN IF ls # <<>> /\ ls[1] = <<"VERSION 1.0 CLASS">> THEN VBEXT_CT_CLASSMODULE
       ELSE IF ls # <<>> /\ ls[1] = <<"VERSION 5.00">> THEN VBEXT_CT_MSFORM
       ELSE VBEXT_CT_STDMODULE

\* components.Import(file) reads the header up to the end of its attribute
\* lines and takes the rest as the body
HostParse(t) ==
    LET ls == SplitLines(t)
        k == IF AttrIdx(ls) = {} THEN 0 ELSE RunEnd(ls)
    IN [type |-> HostType(t),
        header |-> Join(SubSeq(ls, 1, k)),
        body |-> Join(SubSeq(ls, k + 1, Len(ls)))]

\* A host call as the log keeps it: the call, the component it names and the
\* type of the live component of that name when the call is made (0: none)
Call(op, name, lv) ==
    [op |-> op, name |-> name, type |-> IF name \in DOMAIN lv THEN lv[name].type ELSE 0]

\* components.Remove(component) raises for a missing component and for a
\* document module, which the host refuses to remove
RemoveRaises(name, lv) == name \notin DOMAIN lv \/ lv[name].type = VBEXT_CT_DOCUMENT

Without(f, x) == [y \in DOMAIN f \ {x} |-> f[y]]

With(f, x, v) == [y \in DOMAIN f \cup {x} |-> IF y = x THEN v ELSE f[y]]

\* components.Import(file) raises when the host rejects the file, when the
\* text names no component and when a component of that name exists
ImportRaises(content, lv, reject) ==
    reject \/ NameStarts(content) = {} \/ HostName(content) \in DOMAIN lv

----------------------------------------------------------------------------
(* Import of one file *)

\* _read_header_file
read_header_file(code_file, fs) ==
    LET header_file == with_suffix(code_file, ".header")
    IN IF header_file \in DOMAIN fs THEN Strip(fs[header_file]) ELSE <<>>

\* _read_code_file (the file exists)
read_code_file(code_file, fs) == Strip(fs[code_file])

\* An update that adds the new code to the lines already there
update_document_module_keep(name, code, lv, reject) ==
    IF name \notin DOMAIN lv THEN [live |-> lv, calls |-> {}, ok |-> FALSE]
    ELSE LET old == lv[name].body
             new == IF Strip(code) = <<>> THEN old
                    ELSE IF old = <<>> THEN code ELSE code \o <<NL>> \o old
         IN [live |-> IF reject THEN lv ELSE [lv EXCEPT ![name].body = new],
             calls |-> IF Strip(code) # <<>> THEN {Call("AddFromString", name, lv)} ELSE {},
             ok |-> ~(reject /\ Strip(code) # <<>>)]

\* _update_document_module; reject: the host raises in AddFromString.
\* Returns the components, the host calls made and whether it returned.
update_document_module(name, code, lv, reject) ==
    IF name \notin DOMAIN lv THEN [live |-> lv, calls |-> {}, ok |-> FALSE]
    ELSE LET deleted == CountOfLines(lv[name].body) > 0
             cleared == [lv EXCEPT ![name].body = <<>>]
             adds == Strip(code) # <<>>
         IN [live |-> IF adds /\ ~reject THEN [cleared EXCEPT ![name].body = code] ELSE cleared,
             calls |-> (IF deleted THEN {Call("DeleteLines", name, lv)} ELSE {})
                       \cup (IF adds THEN {Call("AddFromString", name, lv)} ELSE {}),
             ok |-> ~(adds /\ reject)]

\* An import that never reads the header file
import_component_noheader(file_path, fs, lv, reject) ==
    LET name == file_path.stem
        module_type == get_module_type(file_path, fs)
    IN IF module_type = ValueError \/ file_path \notin DOMAIN fs
       THEN [live |-> lv, calls |-> {}, ok |-> FALSE]
       ELSE LET code == read_code_file(file_path, fs)
            IN IF module_type = DOCUMENT THEN update_document_module(name, code, lv, reject)
               ELSE LET h == IF module_type \in {CLASS, FORM}
                             THEN create_minimal_header(name, module_type) ELSE <<>>
                        content == prepare_import_content(name, module_type, h, code)
                        removes == name \in DOMAIN lv
                        lv1 == IF RemoveRaises(name, lv) THEN lv ELSE Without(lv, name)
                        raises == ImportRaises(content, lv1, reject)
                    IN [live |-> IF raises THEN lv1 ELSE With(lv1, HostName(content), HostParse(content)),
                        calls |-> (IF removes THEN {Call("Remove", name, lv)} ELSE {})
                                  \cup {Call("Import", name, lv)},
                        ok |-> ~raises]

\* The content import_component writes to the temporary file it hands to
\* components.Import (the file exists and is no document module)
import_content(file_path, fs) ==
    LET name == file_path.stem
        module_type == get_module_type(file_path, fs)
        header == read_header_file(file_path, fs)
        code == read_code_file(file_path, fs)
        h == IF header = <<>> /\ module_type \in {CLASS, FORM}
             THEN create_minimal_header(name, module_type) ELSE header
    IN prepare_import_content(name, module_type, h, code)

\* import_component; reject: the host raises in its last call (Import or
\* AddFromString).  Returns the components, the host calls made and whether
\* it returned (otherwise it raised VBAError).
import_component(file_path, fs, lv, reject) ==
    LET name == file_path.stem
        module_type == get_module_type(file_path, fs)
    IN IF module_type = ValueError \/ file_path \notin DOMAIN fs
       THEN [live |-> lv, calls |-> {}, ok |-> FALSE]
       ELSE LET header == read_header_file(file_path, fs)
                code == read_code_file(file_path, fs)
            IN IF module_type = DOCUMENT THEN update_document_module(name, code, lv, reject)
               ELSE LET h == IF header = <<>> /\ module_type \in {CLASS, FORM}
                             THEN create_minimal_header(name, module_type) ELSE header
                        content == prepare_import_content(name, module_type, h, code)
                        removes == name \in DOMAIN lv
                        lv1 == IF RemoveRaises(name, lv) THEN lv ELSE Without(lv, name)
                        raises == ImportRaises(content, lv1, reject)
                    IN [live |-> IF raises THEN lv1 ELSE With(lv1, HostName(content), HostParse(content)),
                        calls |-> (IF removes THEN {Call("Remove", name, lv)} ELSE {})
                                  \cup {Call("Import", name, lv)},
                        ok |-> ~raises]


----------------------------------------------------------------------------
(* Export *)

\* _write_component_files
write_component_files(name, header, code, type, fs, save_headers) ==
    LET fs1 == IF save_headers /\ header # <<>>
               THEN With(fs, PathOf(name, ".header"), header \o <<NL>>)
               ELSE fs
    IN With(fs1, PathOf(name, Extension(type)), code \o <<NL>>)

\* export_component (the host's Export succeeds)
export_component(name, lv, fs, save_headers) ==
    LET r == split_vba_content(HostExport(lv[name]))
    IN write_component_files(name, r[1], r[2], lv[name].type, fs, save_headers)

\* A skip rule that spares document modules too
skips_existing_all(name, lv, fs, overwrite) ==
    ~overwrite /\ PathOf(name, Extension(lv[name].type)) \in DOMAIN fs

\* The test of export_vba's loop that ends in "continue"
skips_existing(name, lv, fs, overwrite) ==
    /\ ~overwrite
    /\ PathOf(name, Extension(lv[name].type)) \in DOMAIN fs
    /\ \/ lv[name].type # VBEXT_CT_DOCUMENT
       \/ (lv[name].type = VBEXT_CT_DOCUMENT /\ CountOfLines(lv[name].body) = 0)

\* The loop of export_vba over the components in names
RECURSIVE export_all(_, _, _, _)
export_all(names, lv, fs, save_headers) ==
    IF names = {} THEN fs
    ELSE LET n == CHOOSE x \in names : TRUE
         IN export_all(names \ {n}, lv, export_component(n, lv, fs, save_headers), save_headers)

\* _check_form_safety would call sys.exit(1)
form_safety_exits(fs, save_headers) ==
    ~save_headers /\ \E f \in DOMAIN fs : f.dir = ROOT /\ f.ext = ".frm"

\* export_vba on a reachable host; failing: the components whose Export the
\* host rejects.  Returns the directory and the record of the run.
export_vba(overwrite, failing, lv, fs, save_headers) ==
    LET skipped == {n \in DOMAIN lv : skips_existing(n, lv, fs, overwrite)}
        written == (DOMAIN lv \ skipped) \ failing
        fs1 == export_all(written, lv, fs, save_headers)
    IN [files |-> fs1,
        op |-> [NoOp EXCEPT !.op = "export_vba", !.overwrite = overwrite,
                            !.written = written, !.skipped = skipped,
                            !.failed = (DOMAIN lv \ skipped) \cap failing,
                            !.saved = TRUE,
                            !.result = IF DOMAIN lv # {} /\ form_safety_exits(fs1, save_headers)
                                       THEN "exit" ELSE "ok"]]

----------------------------------------------------------------------------
(* Batch import *)

CodeExts == <<".cls", ".bas", ".frm">>

\* self.vba_dir.glob(f"*{ext}")
Glob(fs, ext) == {f \in DOMAIN fs : f.dir = ROOT /\ f.ext = ext}

RECURSIVE SeqOfSet(_)
SeqOfSet(S) == IF S = {} THEN <<>>
               ELSE LET x == CHOOSE y \in S : TRUE IN <<x>> \o SeqOfSet(S \ {x})

\* vba_files of import_vba, in the order of the list
vba_files(fs) == SeqOfSet(Glob(fs, CodeExts[1])) \o SeqOfSet(Glob(fs, CodeExts[2]))
                    \o SeqOfSet(Glob(fs, CodeExts[3]))

\* The loop of import_vba over the files fl; failing: the files whose last
\* host call the host rejects
RECURSIVE import_all(_, _, _, _, _, _)
import_all(fl, fs, lv, cs, failed, failing) ==
    IF fl = <<>> THEN [live |-> lv, calls |-> cs, failed |-> failed]
    ELSE LET r == import_component(Head(fl), fs, lv, Head(fl) \in failing)
         IN import_all(Tail(fl), fs, r.live, cs \cup r.calls,
                       IF r.ok THEN failed ELSE failed \cup {Head(fl)}, failing)

\* import_vba on a reachable host
import_vba(failing, lv, fs) ==
    LET fl == vba_files(fs)
        r == import_all(fl, fs, lv, {}, {}, failing)
    IN [live |-> r.live, calls |-> r.calls,
        op |-> [NoOp EXCEPT !.op = "import_vba", !.result = "ok",
                            !.imported = {fl[i] : i \in 1..Len(fl)} \ r.failed,
                            !.rejected = r.failed,
                            !.saved = (fl # <<>>)]]

----------------------------------------------------------------------------
(* The session *)

DocumentClosedError == "DocumentClosedError"
RPCError == "RPCError"
VBAError == "VBAError"

\* is_document_open on the handler's open document: TRUE, or the error raised
is_document_open(s) == CASE s = "open" -> "True"
                         [] s = "closed" -> DocumentClosedError
                         [] s = "lost" -> RPCError


----------------------------------------------------------------------------
(* The project, the VBA directory and the commands *)

NUtils == <<"Utils">>
NSheet1 == <<"Sheet", "1">>
NSheet2 == <<"Sheet", "2">>
NData == <<"Data">>

Component(name, type, body) == [type |-> type, header |-> HostHeader(name, type), body |-> body]

\* Bodies of the components when the document is opened
InitBodies == {<<>>, <<"x">>, <<NL, "x", SP>>}

\* What the user may write to the VBA directory
UserPaths == {PathOf(NSheet1, ".cls"), PathOf(NSheet2, ".cls"), PathOf(NData, ".cls")}

UserTexts == {<<>>, <<"y">>}

\* RegExpWatcher(re_files=r"^.*\.(cls|frm|bas)$")
Watched(path) == path.ext \in {".cls", ".frm", ".bas"}

ProjectInit ==
    /\ \E b1 \in {<<>>, <<"x">>}, b2 \in {<<"x">>},
          t \in {VBEXT_CT_DOCUMENT, VBEXT_CT_CLASSMODULE, VBEXT_CT_MSFORM} :
          live = (NUtils :> Component(NUtils, VBEXT_CT_STDMODULE, <<"x">>))
                 @@ (NSheet1 :> Component(NSheet1, VBEXT_CT_DOCUMENT, b1))
                 @@ (NData :> Component(NData, t, b2))
    /\ files = EmptyMap
    /\ saveHeaders \in BOOLEAN
    /\ session = "open"
    /\ calls = {}
    /\ lastOp = NoOp
    /\ events = {}
    /\ edits = 0
    /\ watching = FALSE
    /\ phase = "none"
    /\ snap = NoSnap
    /\ pc = "start"
    /\ clock = 0
    /\ batch = <<>>

Init == CodecIdle /\ ProjectInit

\* The export command: export_vba(overwrite=True) in a process of its own,
\* which opens the document.  In the commands the host answers every call
\* as the operators above say; a call it rejects for a reason of its own is
\* the input reject of WatchChanged.
ExportCommand ==
    /\ ~watching
    /\ LET r == export_vba(TRUE, {}, live, files, saveHeaders)
       IN files' = r.files /\ lastOp' = r.op
    /\ session' = "open"
    /\ calls' = {}
    /\ UNCHANGED <<live, saveHeaders, events, edits, watching, phase, snap>>
    /\ UNCHANGED codecVars
    /\ UNCHANGED loopVars

\* The edit command: export_vba(overwrite=False), then watch_changes starts
EditCommand ==
    /\ ~watching
    /\ LET r == export_vba(FALSE, {}, live, files, saveHeaders)
       IN /\ files' = r.files
          /\ lastOp' = r.op
          /\ watching' = (r.op.result = "ok")
    /\ session' = "open"
    /\ calls' = {}
    /\ events' = {}
    /\ UNCHANGED <<live, saveHeaders, edits, phase, snap>>
    /\ UNCHANGED codecVars
    /\ UNCHANGED loopVars

\* The import command: import_vba in a process of its own
ImportCommand ==
    /\ ~watching
    /\ LET r == import_vba({}, live, files)
       IN live' = r.live /\ calls' = r.calls /\ lastOp' = r.op
    /\ session' = "open"
    /\ UNCHANGED <<files, saveHeaders, events, edits, watching, phase, snap>>
    /\ UNCHANGED codecVars
    /\ UNCHANGED loopVars

\* An import of one file that reports a save whether or not it succeeded
import_single_file_save_always(file_path, fs, lv, s, reject) ==
    IF is_document_open(s) # "True"
    THEN [live |-> lv, calls |-> {}, result |-> is_document_open(s), saved |-> TRUE]
    ELSE [live |-> import_component(file_path, fs, lv, reject).live,
          calls |-> import_component(file_path, fs, lv, reject).calls,
          result |-> IF import_component(file_path, fs, lv, reject).ok THEN "ok" ELSE VBAError,
          saved |-> TRUE]

\* import_single_file: the session check, import_component, then doc.Save().
\* Returns the components, the host calls made, "ok" or the error raised,
\* and whether the document was saved.
import_single_file(file_path, fs, lv, s, reject) ==
    IF is_document_open(s) # "True"
    THEN [live |-> lv, calls |-> {}, result |-> is_document_open(s), saved |-> FALSE]
    ELSE LET r == import_component(file_path, fs, lv, reject)
         IN [live |-> r.live, calls |-> r.calls,
             result |-> IF r.ok THEN "ok" ELSE VBAError,
             saved |-> r.ok]

\* The deleted branch of watch_changes that saves whatever the removal did
deleted_file_save_always(path, lv, s) ==
    IF is_document_open(s) # "True"
    THEN [live |-> lv, calls |-> {}, result |-> is_document_open(s), saved |-> FALSE]
    ELSE LET name == path.stem
             found == name \in DOMAIN lv
         IN [live |-> IF found /\ ~RemoveRaises(name, lv) THEN Without(lv, name) ELSE lv,
             calls |-> IF found THEN {Call("Remove", name, lv)} ELSE {},
             result |-> "ok",
             saved |-> TRUE]

\* The deleted branch of watch_changes: the session check, then
\* components(path.stem), components.Remove and doc.Save(), any exception of
\* the three swallowed
deleted_file(path, lv, s) ==
    IF is_document_open(s) # "True"
    THEN [live |-> lv, calls |-> {}, result |-> is_document_open(s), saved |-> FALSE]
    ELSE LET name == path.stem
             found == name \in DOMAIN lv
             removed == found /\ ~RemoveRaises(name, lv)
         IN [live |-> IF removed THEN Without(lv, name) ELSE lv,
             calls |-> IF found THEN {Call("Remove", name, lv)} ELSE {},
             result |-> "ok",
             saved |-> removed]

\* A loop that any failure ends
Fatal_any_failure(result) == result # "ok"

\* DocumentClosedError and RPCError leave watch_changes; any other exception
\* is logged and the loop goes on
Fatal(result) == result \in {DocumentClosedError, RPCError}

\* A temporary file that is the code file itself
temp_file_in_place(file_path) == file_path

\* temp_file of import_component
temp_file(file_path) == with_suffix(file_path, ".tmp")

\* The VBA directory after import_component: the content is written to the
\* temporary file, which the finally clause unlinks; a file that cannot be
\* read and a document module end before the temporary file is made
files_after_component(file_path, fs) ==
    IF file_path \notin DOMAIN fs \/ get_module_type(file_path, fs) \in {ValueError, DOCUMENT}
    THEN fs
    ELSE Without(With(fs, temp_file(file_path), import_content(file_path, fs)),
                 temp_file(file_path))

\* The VBA directory after import_single_file
files_after_import(file_path, fs, s) ==
    IF is_document_open(s) # "True" THEN fs ELSE files_after_component(file_path, fs)

\* What the watcher reports for a directory that was old and is new
watcher_changes(old, new) ==
    {[type |-> "added", path |-> p] : p \in {q \in DOMAIN new \ DOMAIN old : Watched(q)}}
    \cup {[type |-> "deleted", path |-> p] : p \in {q \in DOMAIN old \ DOMAIN new : Watched(q)}}
    \cup {[type |-> "modified", path |-> p] :
             p \in {q \in DOMAIN old \cap DOMAIN new : Watched(q) /\ old[q] # new[q]}}

\* watch_changes, one added or modified file: import_single_file
WatchChanged ==
    /\ watching
    /\ \E ev \in events, reject \in BOOLEAN :
          /\ ev.type \in {"added", "modified"}
          /\ files' = files_after_import(ev.path, files, session)
          /\ events' = (events \ {ev}) \cup watcher_changes(files, files')
          /\ LET r == import_single_file(ev.path, files, live, session, reject)
             IN /\ live' = r.live
                /\ calls' = r.calls
                /\ watching' = ~Fatal(r.result)
                /\ lastOp' = [NoOp EXCEPT !.op = "import_single_file", !.path = ev.path,
                                          !.result = r.result, !.saved = r.saved]
    /\ UNCHANGED <<saveHeaders, session, edits, phase, snap>>
    /\ UNCHANGED codecVars
    /\ UNCHANGED loopVars

\* watch_changes, one deleted file
WatchDeleted ==
    /\ watching
    /\ \E ev \in events :
          /\ ev.type = "deleted"
          /\ events' = events \ {ev}
          /\ live' = deleted_file(ev.path, live, session).live
          /\ calls' = deleted_file(ev.path, live, session).calls
          /\ watching' = ~Fatal(deleted_file(ev.path, live, session).result)
          /\ lastOp' = [NoOp EXCEPT !.op = "watch_deleted", !.path = ev.path,
                                    !.result = deleted_file(ev.path, live, session).result,
                                    !.saved = deleted_file(ev.path, live, session).saved]
    /\ UNCHANGED <<files, saveHeaders, session, edits, phase, snap>>
    /\ UNCHANGED codecVars
    /\ UNCHANGED loopVars

\* KeyboardInterrupt ends watch_changes
Interrupt ==
    /\ watching
    /\ watching' = FALSE
    /\ events' = {}
    /\ UNCHANGED <<live, files, saveHeaders, session, calls, lastOp, edits, phase, snap>>
    /\ UNCHANGED codecVars
    /\ UNCHANGED loopVars

\* The user saves a file in the VBA directory
UserWrite ==
    /\ edits < MaxEdits
    /\ \E path \in UserPaths, text \in UserTexts :
          /\ files' = With(files, path, text)
          /\ events' = IF watching /\ Watched(path)
                       THEN events \cup {[type |-> IF path \in DOMAIN files THEN "modified" ELSE "added",
                                          path |-> path]}
                       ELSE events
    /\ edits' = edits + 1
    /\ UNCHANGED <<live, saveHeaders, session, calls, lastOp, watching, phase, snap>>
    /\ UNCHANGED codecVars
    /\ UNCHANGED loopVars

\* The user deletes a file of the VBA directory
UserDelete ==
    /\ edits < MaxEdits
    /\ \E path \in UserPaths \cap DOMAIN files :
          /\ files' = Without(files, path)
          /\ events' = IF watching /\ Watched(path)
                       THEN events \cup {[type |-> "deleted", path |-> path]}
                       ELSE events
    /\ edits' = edits + 1
    /\ UNCHANGED <<live, saveHeaders, session, calls, lastOp, watching, phase, snap>>
    /\ UNCHANGED codecVars
    /\ UNCHANGED loopVars

\* The user closes the document, or the application dies, during the watch
HostGone ==
    /\ watching /\ session = "open"
    /\ session' \in {"closed", "lost"}
    /\ UNCHANGED <<live, files, saveHeaders, calls, lastOp, events, edits, watching, phase, snap>>
    /\ UNCHANGED codecVars
    /\ UNCHANGED loopVars

Next ==
    \/ ExportCommand
    \/ EditCommand
    \/ ImportCommand
    \/ WatchChanged
    \/ WatchDeleted
    \/ Interrupt
    \/ UserWrite
    \/ UserDelete
    \/ HostGone

Spec == Init /\ [][Next]_vars


----------------------------------------------------------------------------
(* Claims about the commands and the watch *)

ImportDone == lastOp.op \in {"import_vba", "import_single_file"}

(* C1: in every run of import_vba and of import_single_file, no            *)
(* components.Remove and no components.Import is issued for a component     *)
(* that is live with the Document type when the call is made                *)
C1_ImportSparesDocuments ==
    ImportDone =>
        \A c \in calls : c.type = VBEXT_CT_DOCUMENT => c.op \notin {"Remove", "Import"}

(* C2: when the watch handles the deletion of a file, it issues no          *)
(* components.Remove for a component that is live with the Document type    *)
C2_WatchDeletedSparesDocuments ==
    lastOp.op = "watch_deleted" =>
        \A c \in calls : c.op = "Remove" => c.type # VBEXT_CT_DOCUMENT

\* A step of WatchChanged on a reachable document
ImportSingleStep == WatchChanged /\ is_document_open(session) = "True"

(* C3: import_single_file of an existing file classified as a document      *)
(* module: without a live component of the file's name it fails with        *)
(* VBAError, calls nothing and changes no component; with one, it deletes   *)
(* the lines there are, and when it returns the component's body is the     *)
(* stripped text of the file (empty for a blank file), inserted only when   *)
(* it is not blank, and no component is added or removed                    *)
C3_UpdateDocumentModule ==
    [][(/\ ImportSingleStep
        /\ lastOp'.path \in DOMAIN files
        /\ get_module_type(lastOp'.path, files) = DOCUMENT)
       => LET name == lastOp'.path.stem
              code == Strip(files[lastOp'.path])
          IN IF name \notin DOMAIN live
             THEN lastOp'.result = VBAError /\ live' = live /\ calls' = {}
             ELSE /\ (live[name].body # <<>>) =>
                         [op |-> "DeleteLines", name |-> name, type |-> live[name].type] \in calls'
                  /\ ([op |-> "AddFromString", name |-> name, type |-> live[name].type] \in calls')
                         <=> (code # <<>>)
                  /\ \A c \in calls' : c.op \in {"DeleteLines", "AddFromString"}
                  /\ DOMAIN live' = DOMAIN live
                  /\ \A n \in DOMAIN live \ {name} : live'[n] = live[n]
                  /\ live'[name].type = live[name].type
                  /\ lastOp'.result = "ok" => live'[name].body = code]_vars

\* A document module with lines has them replaced by the text of its file
C3_Witness ==
    /\ lastOp.op = "import_single_file" /\ lastOp.result = "ok"
    /\ lastOp.path = PathOf(NSheet1, ".cls")
    /\ [op |-> "DeleteLines", name |-> NSheet1, type |-> VBEXT_CT_DOCUMENT] \in calls
    /\ [op |-> "AddFromString", name |-> NSheet1, type |-> VBEXT_CT_DOCUMENT] \in calls
    /\ live[NSheet1].body = <<"y">>

\* A step of ExportCommand or EditCommand
ExportStep == ExportCommand \/ EditCommand

\* What export_component writes to the code file of a component
ExportedCode(c) == split_vba_content(HostExport(c))[2] \o <<NL>>

SameFile(path) ==
    /\ (path \in DOMAIN files) <=> (path \in DOMAIN files')
    /\ path \in DOMAIN files => files'[path] = files[path]

----------------------------------------------------------------------------
(* Export, import, export: the three commands in a row on an empty          *)
(* directory, with no edit of the user in between                           *)

IdemInit ==
    /\ CodecIdle
    /\ \E b0 \in InitBodies, b1 \in {<<>>, <<"x">>}, b2 \in InitBodies,
          t \in {VBEXT_CT_DOCUMENT, VBEXT_CT_CLASSMODULE, VBEXT_CT_MSFORM} :
          live = (NUtils :> Component(NUtils, VBEXT_CT_STDMODULE, b0))
                 @@ (NSheet1 :> Component(NSheet1, VBEXT_CT_DOCUMENT, b1))
                 @@ (NData :> Component(NData, t, b2))
    /\ files = EmptyMap
    /\ saveHeaders \in BOOLEAN
    /\ session = "open"
    /\ calls = {}
    /\ lastOp = NoOp
    /\ events = {}
    /\ edits = 0
    /\ watching = FALSE
    /\ phase = "start"
    /\ snap = NoSnap
    /\ pc = "start"
    /\ clock = 0
    /\ batch = <<>>

\* export_vba, with either setting of overwrite
IdemExport ==
    /\ phase = "start"
    /\ \E overwrite \in BOOLEAN :
          LET r == export_vba(overwrite, {}, live, files, saveHeaders)
          IN files' = r.files /\ lastOp' = r.op
    /\ calls' = {}
    /\ phase' = "exported"
    /\ UNCHANGED <<live, saveHeaders, session, events, edits, watching, snap>>
    /\ UNCHANGED codecVars
    /\ UNCHANGED loopVars

\* import_vba; the directory and the components before it are kept
IdemImport ==
    /\ phase = "exported"
    /\ LET r == import_vba({}, live, files)
       IN live' = r.live /\ calls' = r.calls /\ lastOp' = r.op
    /\ snap' = [files |-> files, live |-> live]
    /\ phase' = "imported"
    /\ UNCHANGED <<files, saveHeaders, session, events, edits, watching>>
    /\ UNCHANGED codecVars
    /\ UNCHANGED loopVars

\* export_vba(overwrite=True)
IdemExportAgain ==
    /\ phase = "imported"
    /\ LET r == export_vba(TRUE, {}, live, files, saveHeaders)
       IN files' = r.files /\ lastOp' = r.op
    /\ calls' = {}
    /\ phase' = "done"
    /\ UNCHANGED <<live, saveHeaders, session, events, edits, watching, snap>>
    /\ UNCHANGED codecVars
    /\ UNCHANGED loopVars

IdemNext == IdemExport \/ IdemImport \/ IdemExportAgain

SpecIdem == IdemInit /\ [][IdemNext]_vars

\* The files of the component named n are in fs2 what they are in fs1
SameStoredFiles(n, fs1, fs2) ==
    \A ext \in {".bas", ".cls", ".frm", ".header"} :
        LET path == PathOf(n, ext)
        IN /\ (path \in DOMAIN fs1) <=> (path \in DOMAIN fs2)
           /\ path \in DOMAIN fs1 => fs1[path] = fs2[path]

(* C4: after export_vba, import_vba and export_vba(overwrite=True) in a row, *)
(* the code file and the header file of every component whose body is after *)
(* the import what it was before are what the first export wrote            *)
C4_ExportImportExport ==
    phase = "done" =>
        \A n \in DOMAIN snap.live :
            (n \in DOMAIN live /\ live[n].body = snap.live[n].body)
                => SameStoredFiles(n, snap.files, files)

\* The three commands have run with header files on a project whose class
\* module was removed and imported again from its header and code file
C4_Witness ==
    /\ phase = "done"
    /\ saveHeaders
    /\ snap.live[NData].type = VBEXT_CT_CLASSMODULE
    /\ live[NData].body = snap.live[NData].body
    /\ PathOf(NData, ".header") \in DOMAIN files
    /\ live[NSheet1].body = snap.live[NSheet1].body
    /\ live[NUtils].body = snap.live[NUtils].body

----------------------------------------------------------------------------
(* Claims about the edit session (checked under Spec) *)

\* A step of the edit session: its export or the handling of a file event
EditSessionStep == EditCommand \/ WatchChanged \/ WatchDeleted

(* C11: no step of an edit session (export_vba(overwrite=False), then the   *)
(* handling of file events) changes or removes a .bas, .cls or .frm file    *)
(* that is in the VBA directory before the step                             *)
C11_EditKeepsPresentFiles ==
    [][EditSessionStep =>
        \A path \in DOMAIN files :
            Watched(path) => path \in DOMAIN files' /\ files'[path] = files[path]]_vars

(* C16: when import_single_file of a file that is not classified as a      *)
(* document module fails, the component of the file's name is live after    *)
(* the failure exactly as it was before                                     *)
C16_FailedImportKeepsComponent ==
    [][(/\ WatchChanged
        /\ is_document_open(session) = "True"
        /\ lastOp'.result = VBAError
        /\ get_module_type(lastOp'.path, files) \in {STANDARD, CLASS, FORM})
       => LET name == lastOp'.path.stem
          IN name \in DOMAIN live => name \in DOMAIN live' /\ live'[name] = live[name]]_vars

----------------------------------------------------------------------------
(* The commands on a host that fails.  A run has these inputs: unreadable,  *)
(* the components whose properties the host does not give; failing, the     *)
(* components or files for which the host rejects Export, Import or         *)
(* AddFromString; alive, the number of components or files of the loop the  *)
(* host still answers before it becomes unreachable (one more than there    *)
(* are: it answers save_document too).                                      *)

\* One entry of the log of a run; up: the host was reachable
LogEntry(op, path, up) == [op |-> op, path |-> path, up |-> up]

NoPath == PathOf(<<>>, "")

\* What the loop of import_vba has done so far, with the file f added: r is
\* what import_component did, up whether the host was reachable
Attempted(acc, f, up, r) ==
    [live |-> r.live, calls |-> acc.calls \cup r.calls,
     failed |-> IF r.ok THEN acc.failed ELSE acc.failed \cup {f},
     log |-> Append(acc.log, LogEntry("import_component", f, up))]

NothingAttempted(lv) == [live |-> lv, calls |-> {}, failed |-> {}, log |-> <<>>]

\* import_component in the try block of the loop: on an unreachable host
\* every call raises, and import_component raises VBAError
import_step(f, fs, failing, alive, acc) ==
    Attempted(acc, f, alive > 0,
              IF alive > 0 THEN import_component(f, fs, acc.live, f \in failing)
              ELSE [live |-> acc.live, calls |-> {}, ok |-> FALSE])

\* A loop that gives up at the first file that fails
RECURSIVE import_files_abort(_, _, _, _, _)
import_files_abort(fl, fs, failing, alive, acc) ==
    IF fl = <<>> \/ acc.failed # {} THEN acc
    ELSE import_files_abort(Tail(fl), fs, failing, IF alive > 0 THEN alive - 1 ELSE 0,
                            import_step(Head(fl), fs, failing, alive, acc))

\* The loop of import_vba over the files fl, each in its own try block
RECURSIVE import_files(_, _, _, _, _)
import_files(fl, fs, failing, alive, acc) ==
    IF fl = <<>> THEN acc
    ELSE import_files(Tail(fl), fs, failing, IF alive > 0 THEN alive - 1 ELSE 0,
                      import_step(Head(fl), fs, failing, alive, acc))

\* The record of a run of import_vba whose loop did r and whose host calls
\* are logged as log; saved: save_document returned
ImportRecord(r, log, saved) ==
    [live |-> r.live, calls |-> r.calls,
     op |-> [NoOp EXCEPT !.op = "import_vba",
                         !.result = IF saved THEN "ok" ELSE VBAError,
                         !.imported = {r.log[i].path : i \in 1..Len(r.log)} \ r.failed,
                         !.rejected = r.failed,
                         !.saved = saved,
                         !.log = log]]

\* The log of a loop with a save_document after every file
SaveAfterEach(log, saved) ==
    [i \in 1..(2 * Len(log)) |->
        IF i % 2 = 1 THEN log[(i + 1) \div 2] ELSE LogEntry("save_document", NoPath, saved)]

\* The log of a loop with one save_document at its end
SaveAtEnd(log, saved) == Append(log, LogEntry("save_document", NoPath, saved))

\* The rest of import_vba for the files fl, which are n; r: what the loop did
import_end_save_each(r, n, alive, lv) ==
    ImportRecord(r, SaveAfterEach(r.log, alive > n), alive > n)

\* The rest of import_vba: it returns at once when there is no file, and
\* calls save_document after the loop otherwise
import_end(r, n, alive, lv) ==
    IF n = 0
    THEN [live |-> lv, calls |-> {}, op |-> [NoOp EXCEPT !.op = "import_vba", !.result = "ok"]]
    ELSE ImportRecord(r, SaveAtEnd(r.log, alive > n), alive > n)

\* import_vba after its connection check (_ = self.doc.Name) has passed
import_vba_run(failing, alive, lv, fs) ==
    import_end(import_files(vba_files(fs), fs, failing, alive, NothingAttempted(lv)),
               Len(vba_files(fs)), alive, lv)

\* export_vba after open_document and get_vba_project have passed
export_vba_run(overwrite, unreadable, failing, alive, lv, fs, save_headers) ==
    LET comps == SeqOfSet(DOMAIN lv)
        reached == {comps[i] : i \in 1..(IF alive < Len(comps) THEN alive ELSE Len(comps))}
        skipped == {n \in reached : skips_existing(n, lv, fs, overwrite)}
        written == (reached \ skipped) \ failing
        fs1 == export_all(written, lv, fs, save_headers)
        saved == alive > Len(comps)
    IN IF unreadable \cap DOMAIN lv # {}
       THEN \* get_component_info raises in the loop that lists the components
            [files |-> fs,
             op |-> [NoOp EXCEPT !.op = "export_vba", !.overwrite = overwrite,
                                 !.failed = unreadable \cap DOMAIN lv,
                                 !.saved = saved,
                                 !.result = VBAError]]
       ELSE [files |-> fs1,
             op |-> [NoOp EXCEPT !.op = "export_vba", !.overwrite = overwrite,
                                 !.written = written, !.skipped = skipped,
                                 !.failed = ((reached \ skipped) \cap failing)
                                            \cup (DOMAIN lv \ reached),
                                 !.saved = saved,
                                 !.result = IF ~saved THEN VBAError
                                            ELSE IF DOMAIN lv # {} /\ form_safety_exits(fs1, save_headers)
                                            THEN "exit" ELSE "ok"]]

\* The faults of one run over the items S: none, or one of one kind
NoFault(S) == [unreadable |-> {}, failing |-> {}, alive |-> Cardinality(S) + 1]

Faults(S, kinds) ==
    {NoFault(S)}
    \cup (IF "unreadable" \in kinds THEN {[NoFault(S) EXCEPT !.unreadable = {x}] : x \in S} ELSE {})
    \cup (IF "failing" \in kinds THEN {[NoFault(S) EXCEPT !.failing = {x}] : x \in S} ELSE {})
    \cup (IF "lost" \in kinds THEN {[NoFault(S) EXCEPT !.alive = k] : k \in 0..Cardinality(S)} ELSE {})

\* The export command or the export of the edit command, in a process of
\* its own; the watch that follows the latter is not part of this action
ExportRun ==
    /\ ~watching
    /\ \E overwrite \in BOOLEAN, ft \in Faults(DOMAIN live, {"unreadable", "failing", "lost"}) :
          LET r == export_vba_run(overwrite, ft.unreadable, ft.failing, ft.alive,
                                  live, files, saveHeaders)
          IN /\ files' = r.files
             /\ lastOp' = r.op
             /\ session' = IF ft.alive > Cardinality(DOMAIN live) THEN "open" ELSE "lost"
    /\ calls' = {}
    /\ UNCHANGED <<live, saveHeaders, events, edits, watching, phase, snap>>
    /\ UNCHANGED codecVars
    /\ UNCHANGED loopVars

\* The import command, in a process of its own
ImportRun ==
    /\ ~watching
    /\ \E ft \in Faults({f \in DOMAIN files : f.dir = ROOT /\ Watched(f)}, {"failing", "lost"}) :
          LET r == import_vba_run(ft.failing, ft.alive, live, files)
          IN /\ live' = r.live
             /\ calls' = r.calls
             /\ lastOp' = r.op
             /\ session' = IF ft.alive > Cardinality({f \in DOMAIN files : f.dir = ROOT /\ Watched(f)})
                           THEN "open" ELSE "lost"
    /\ UNCHANGED <<files, saveHeaders, events, edits, watching, phase, snap>>
    /\ UNCHANGED codecVars
    /\ UNCHANGED loopVars

FaultsNext == ExportRun \/ ImportRun

SpecFaults == Init /\ [][FaultsNext]_vars

----------------------------------------------------------------------------
(* Claims about the commands on a host that fails (checked under SpecFaults) *)

\* The files import_vba enumerates
ImportFiles(fs) == {f \in DOMAIN fs : f.dir = ROOT /\ Watched(f)}

\* The places of log with an entry of op
LogPlaces(log, op) == {i \in 1..Len(log) : log[i].op = op}

(* C12: in an export_vba whose host stays reachable, a component that       *)
(* cannot be read, classified, split or written does not make the export    *)
(* fail, and every other component is exported or skipped by the rule of    *)
(* overwrite                                                                *)
C12_ExportContinues ==
    [][(ExportRun /\ session' = "open") =>
        /\ lastOp'.result # VBAError
        /\ Cardinality(lastOp'.failed) <= 1
        /\ DOMAIN live \ lastOp'.failed \subseteq lastOp'.written \cup lastOp'.skipped]_vars

(* C13: in an import_vba whose host stays reachable, every enumerated file  *)
(* is attempted whether or not files before it failed, a file that is       *)
(* imported leaves its text as the body of the component of its name, and   *)
(* when there is a file the document is saved at the end and the run        *)
(* returns without error                                                    *)
C13_ImportContinues ==
    [][(ImportRun /\ session' = "open") =>
        /\ lastOp'.imported \cup lastOp'.rejected = ImportFiles(files)
        /\ {lastOp'.log[i].path : i \in LogPlaces(lastOp'.log, "import_component")}
               = ImportFiles(files)
        /\ \A f \in lastOp'.imported :
               f.stem \in DOMAIN live' /\ live'[f.stem].body = Strip(files[f])
        /\ lastOp'.result = "ok"
        /\ lastOp'.saved = (ImportFiles(files) # {})]_vars

\* A run in which a file failed, a later file was imported and the document
\* was saved
C13_Witness ==
    /\ lastOp.op = "import_vba" /\ lastOp.result = "ok" /\ lastOp.saved
    /\ session = "open"
    /\ \E i, j \in LogPlaces(lastOp.log, "import_component") :
          /\ i < j
          /\ lastOp.log[i].path \in lastOp.rejected
          /\ lastOp.log[j].path \in lastOp.imported

(* C14: a run of import_vba calls save_document at most once, and only      *)
(* after import_component has been called for every enumerated file         *)
C14_SaveOnceAtEnd ==
    lastOp.op = "import_vba" =>
        LET saves == LogPlaces(lastOp.log, "save_document")
        IN /\ Cardinality(saves) <= 1
           /\ \A i \in saves :
                 /\ i = Len(lastOp.log)
                 /\ {lastOp.log[j].path : j \in 1..(i - 1)} = ImportFiles(files)
                 /\ \A j \in 1..(i - 1) : lastOp.log[j].op = "import_component"

\* A run over three files, one of which failed, saved once at its end
C14_Witness ==
    /\ lastOp.op = "import_vba" /\ lastOp.saved
    /\ Len(lastOp.log) = 4
    /\ lastOp.rejected # {}
    /\ LogPlaces(lastOp.log, "save_document") = {4}

\* A run in which the host became unreachable after the run had begun
HostLostInRun ==
    /\ ExportRun \/ ImportRun
    /\ session' = "lost"
    /\ lastOp'.op = "import_vba" => lastOp'.log # <<>>

(* C15: when the host becomes unreachable during export_vba or import_vba,  *)
(* the run raises the error of the session (RPCError or                     *)
(* DocumentClosedError), and at most one component or file is attempted on  *)
(* the unreachable host                                                     *)
C15_SessionErrorPropagates ==
    [][HostLostInRun =>
        /\ lastOp'.result \in {RPCError, DocumentClosedError}
        /\ Cardinality({i \in 1..Len(lastOp'.log) :
                           lastOp'.log[i].op = "import_component" /\ ~lastOp'.log[i].up}) <= 1
        /\ lastOp'.op = "export_vba" => Cardinality(lastOp'.failed) <= 1]_vars


----------------------------------------------------------------------------
(* The watch loop with asynchronous interrupts and a host that dies *)

KeyboardInterrupt == "KeyboardInterrupt"

\* A file left in the VBA directory by an earlier session, with no component
\* of its name in the project
StaleFiles == PathOf(NSheet2, ".cls") :> <<"y">>

WatchInit ==
    /\ CodecIdle
    /\ \E b1 \in {<<>>, <<"x">>}, b2 \in {<<"x">>},
          t \in {VBEXT_CT_DOCUMENT, VBEXT_CT_CLASSMODULE, VBEXT_CT_MSFORM} :
          live = (NUtils :> Component(NUtils, VBEXT_CT_STDMODULE, <<"x">>))
                 @@ (NSheet1 :> Component(NSheet1, VBEXT_CT_DOCUMENT, b1))
                 @@ (NData :> Component(NData, t, b2))
    /\ files \in {EmptyMap, StaleFiles}
    /\ saveHeaders \in BOOLEAN
    /\ session = "open"
    /\ calls = {}
    /\ lastOp = NoOp
    /\ events = {}
    /\ edits = 0
    /\ watching = FALSE
    /\ phase = "none"
    /\ snap = NoSnap
    /\ pc = "start"
    /\ clock = 0
    /\ batch = <<>>

\* The connection check the loop makes every 30 seconds, when it fails
WatchCheck ==
    /\ watching
    /\ is_document_open(session) # "True"
    /\ watching' = FALSE
    /\ events' = {}
    /\ lastOp' = [NoOp EXCEPT !.op = "watch_check", !.result = is_document_open(session)]
    /\ UNCHANGED <<live, files, saveHeaders, session, calls, edits, phase, snap>>
    /\ UNCHANGED codecVars
    /\ UNCHANGED loopVars

\* The handling of one event during which the application dies after the
\* session check has passed: every host call raises.  import_component and
\* import_single_file turn the error into VBAError, the deleted branch
\* swallows it, and the loop goes on.
HostDiesInFlight ==
    /\ watching
    /\ session = "open"
    /\ \E ev \in events :
          /\ files' = IF ev.type = "deleted" THEN files
                      ELSE files_after_import(ev.path, files, session)
          /\ events' = (events \ {ev}) \cup watcher_changes(files, files')
          /\ lastOp' = IF ev.type = "deleted"
                       THEN [NoOp EXCEPT !.op = "watch_deleted", !.path = ev.path, !.result = "ok"]
                       ELSE [NoOp EXCEPT !.op = "import_single_file", !.path = ev.path,
                                         !.result = VBAError]
    /\ session' = "lost"
    /\ calls' = {}
    /\ UNCHANGED <<live, saveHeaders, edits, watching, phase, snap>>
    /\ UNCHANGED codecVars
    /\ UNCHANGED loopVars

\* Where import_component stands when its first host call ("removed":
\* components.Remove, or DeleteLines of a document module) or its second one
\* ("imported": components.Import, or AddFromString) has returned
import_component_to(file_path, fs, lv, at) ==
    LET name == file_path.stem
        code == read_code_file(file_path, fs)
    IN IF at = "imported" THEN import_component(file_path, fs, lv, FALSE)
       ELSE IF get_module_type(file_path, fs) = DOCUMENT
       THEN [live |-> [lv EXCEPT ![name].body = <<>>],
             calls |-> IF CountOfLines(lv[name].body) > 0
                       THEN {Call("DeleteLines", name, lv)} ELSE {},
             ok |-> FALSE]
       ELSE [live |-> IF RemoveRaises(name, lv) THEN lv ELSE Without(lv, name),
             calls |-> IF name \in DOMAIN lv THEN {Call("Remove", name, lv)} ELSE {},
             ok |-> FALSE]

\* The events whose handling makes host calls, and the points between them
Interruptible(ev, at, fs, lv) ==
    IF ev.type = "deleted"
    THEN at = "removed" /\ ev.path.stem \in DOMAIN lv
    ELSE /\ ev.path \in DOMAIN fs
         /\ get_module_type(ev.path, fs) # ValueError
         /\ get_module_type(ev.path, fs) = DOCUMENT => ev.path.stem \in DOMAIN lv

\* KeyboardInterrupt is raised wherever the interpreter stands when the
\* signal arrives: here after a host call of the handling of an event has
\* returned and before the next one, or before doc.Save().  No handler on
\* the way catches it before the one that ends watch_changes.
InterruptInFlight ==
    /\ watching
    /\ is_document_open(session) = "True"
    /\ \E ev \in events, at \in {"removed", "imported"} :
          /\ Interruptible(ev, at, files, live)
          /\ files' = IF ev.type = "deleted" THEN files
                      ELSE files_after_import(ev.path, files, session)
          /\ live' = IF ev.type = "deleted"
                     THEN deleted_file(ev.path, live, session).live
                     ELSE import_component_to(ev.path, files, live, at).live
          /\ calls' = IF ev.type = "deleted"
                      THEN deleted_file(ev.path, live, session).calls
                      ELSE import_component_to(ev.path, files, live, at).calls
          /\ lastOp' = [NoOp EXCEPT !.op = IF ev.type = "deleted" THEN "watch_deleted"
                                           ELSE "import_single_file",
                                    !.path = ev.path,
                                    !.result = KeyboardInterrupt]
    /\ watching' = FALSE
    /\ events' = {}
    /\ UNCHANGED <<saveHeaders, session, edits, phase, snap>>
    /\ UNCHANGED codecVars
    /\ UNCHANGED loopVars

\* Files beside the code files that the user may save: a header file and a
\* file with the name of the temporary file of an import
AuxPaths == {with_suffix(PathOf(NData, ".cls"), ".header"),
             with_suffix(PathOf(NData, ".cls"), ".tmp")}

\* The user saves one of these files, once, while the loop watches
UserWriteAux ==
    /\ watching
    /\ \E path \in AuxPaths \ DOMAIN files :
          /\ files' = With(files, path, <<"y">>)
          /\ events' = events \cup watcher_changes(files, files')
    /\ UNCHANGED <<live, saveHeaders, session, calls, lastOp, edits, watching, phase, snap>>
    /\ UNCHANGED codecVars
    /\ UNCHANGED loopVars

WatchNext ==
    \/ EditCommand
    \/ WatchChanged
    \/ WatchDeleted
    \/ WatchCheck
    \/ HostDiesInFlight
    \/ Interrupt
    \/ InterruptInFlight
    \/ UserWrite
    \/ UserDelete
    \/ UserWriteAux
    \/ HostGone

SpecWatch == WatchInit /\ [][WatchNext]_vars


----------------------------------------------------------------------------
(* Claims about the watch loop (checked under SpecWatch) *)

\* C17: an interrupt ends the watch loop only between the handling of two
\* events: the step that ends the loop by an interrupt leaves the components
\* of the project as they were, and makes no host call.
C17_InterruptBetweenEvents ==
    [][(Interrupt \/ InterruptInFlight) => live' = live /\ calls' = calls]_vars

DeletedStep == WatchDeleted /\ is_document_open(session) = "True"

\* C18 as stated: a Deleted event removes the component of the file's stem
\* whenever it is present and then saves; with no such component it changes
\* nothing; the loop keeps running.
C18_DeletedRemovesPresent ==
    [][DeletedStep =>
        LET name == lastOp'.path.stem
        IN /\ name \in DOMAIN live => name \notin DOMAIN live' /\ lastOp'.saved
           /\ name \notin DOMAIN live => live' = live
           /\ watching']_vars

\* C18: a Deleted event removes the component of the file's stem and then
\* saves when the component is present and not a document module; a document
\* module and a missing component are left alone, nothing is saved and no
\* error is raised; a second Deleted event for the same file would change
\* nothing and save nothing; the loop keeps running.
C18_DeletedRemovesOnce ==
    [][DeletedStep =>
        LET name == lastOp'.path.stem
            present == name \in DOMAIN live /\ live[name].type # VBEXT_CT_DOCUMENT
        IN /\ present => live' = Without(live, name) /\ lastOp'.saved
           /\ ~present => live' = live /\ ~lastOp'.saved
           /\ name \notin DOMAIN live => calls' = {}
           /\ lastOp'.result = "ok"
           /\ watching'
           /\ deleted_file(lastOp'.path, live', session).live = live'
           /\ ~deleted_file(lastOp'.path, live', session).saved]_vars

\* A Deleted event has removed a component and saved, and the loop runs
C18_Witness ==
    /\ watching
    /\ lastOp.op = "watch_deleted"
    /\ lastOp.result = "ok"
    /\ lastOp.saved
    /\ lastOp.path.stem \notin DOMAIN live

ImportCalls(cs) == {c \in cs : c.op \in {"Import", "AddFromString"}}

\* C19: the handling of an Added or Modified event takes that one event from
\* the pending ones and is one import_single_file of its path: every host
\* call names the component of the path, at most one of them brings code in,
\* the outcome is the one of that import whatever the type of the event, and
\* the document is saved exactly when the import succeeded.
C19_ChangedImportsOnce ==
    [][WatchChanged =>
        \E ev \in events :
            /\ ev.type \in {"added", "modified"}
            /\ events' = events \ {ev}
            /\ lastOp'.op = "import_single_file"
            /\ lastOp'.path = ev.path
            /\ \A c \in calls' : c.name = ev.path.stem
            /\ Cardinality(ImportCalls(calls')) <= 1
            /\ lastOp'.saved <=> lastOp'.result = "ok"
            /\ lastOp'.result = "ok" => ImportCalls(calls') # {} \/ Strip(files[ev.path]) = <<>>
            /\ \E reject \in BOOLEAN :
                  live' = import_single_file(ev.path, files, live, session, reject).live]_vars

\* An added file has been imported as a new component and the document saved
C19_Witness ==
    /\ watching
    /\ lastOp.op = "import_single_file"
    /\ lastOp.result = "ok"
    /\ lastOp.saved
    /\ ImportCalls(calls) # {}
    /\ lastOp.path.stem \in DOMAIN live
    /\ lastOp.path \in DOMAIN files
    /\ live[lastOp.path.stem].body = Strip(files[lastOp.path])

HandlingStep == WatchChanged \/ WatchDeleted \/ HostDiesInFlight

\* C20: the handling of an event keeps the loop running and the other
\* pending events in place when the session is there at its end, whether or
\* not the handling failed, and ends the loop when the session is closed or
\* lost.
C20_OnlySessionLossEndsLoop ==
    [][HandlingStep =>
        IF session' = "open"
        THEN watching' /\ \E ev \in events : events' = events \ {ev}
        ELSE ~watching']_vars


\* The watched files of a directory
WatchedPart(fs) == [p \in {q \in DOMAIN fs : Watched(q)} |-> fs[p]]

----------------------------------------------------------------------------
(* The watch loop pass by pass: connection check, poll, the changes of the *)
(* poll one after the other, sleep                                         *)

\* check_interval of watch_changes, in seconds
check_interval == 30

\* The seconds one pass of the loop may take, the sleep included
Elapses == {15, 30}

\* The components and the VBA directory when export_vba(overwrite=False) of
\* the edit command has returned and watch_changes is entered
LoopInit ==
    /\ CodecIdle
    /\ \E b1 \in {<<>>, <<"x">>}, t \in {VBEXT_CT_DOCUMENT, VBEXT_CT_CLASSMODULE} :
          /\ live = (NUtils :> Component(NUtils, VBEXT_CT_STDMODULE, <<"x">>))
                    @@ (NSheet1 :> Component(NSheet1, VBEXT_CT_DOCUMENT, b1))
                    @@ (NData :> Component(NData, t, <<"x">>))
          /\ files = export_vba(FALSE, {}, live, EmptyMap, FALSE).files
    /\ saveHeaders = FALSE
    /\ session = "open"
    /\ calls = {}
    /\ lastOp = NoOp
    /\ events = {}
    /\ edits = 0
    /\ watching = TRUE
    /\ phase = "none"
    /\ snap = NoSnap
    /\ pc = "start"
    /\ clock = 0
    /\ batch = <<>>

\* The user renames a file of the VBA directory: the watcher reports the old
\* path as deleted and the new one as added
UserRename ==
    /\ edits < MaxEdits
    /\ \E old \in UserPaths \cap DOMAIN files, new \in UserPaths \ DOMAIN files :
          /\ files' = With(Without(files, old), new, files[old])
          /\ events' = IF watching
                       THEN events \cup {[type |-> "deleted", path |-> old],
                                         [type |-> "added", path |-> new]}
                       ELSE events
    /\ edits' = edits + 1
    /\ UNCHANGED <<live, saveHeaders, session, calls, lastOp, watching, phase, snap>>
    /\ UNCHANGED codecVars
    /\ UNCHANGED loopVars

\* watch_changes up to the loop: last_check_time is taken and the watcher is
\* built, which reads the directory as it is; fault: building it raises,
\* which no handler of watch_changes catches
LoopStart ==
    /\ watching /\ pc = "start"
    /\ \E fault \in BOOLEAN :
          IF fault
          THEN /\ watching' = FALSE
               /\ lastOp' = [NoOp EXCEPT !.op = "watch_changes", !.result = "OSError"]
               /\ pc' = pc
          ELSE /\ watching' = TRUE
               /\ lastOp' = lastOp
               /\ pc' = "check"
    /\ clock' = 0
    /\ events' = {}
    /\ UNCHANGED <<live, files, saveHeaders, session, calls, edits, phase, snap, batch>>
    /\ UNCHANGED codecVars

\* A connection check that is due only after the interval has been exceeded
check_due_late(c) == c > check_interval

\* current_time - last_check_time >= check_interval
check_due(c) == c >= check_interval

\* The top of a pass: the connection check when it is due
LoopCheck ==
    /\ watching /\ pc = "check"
    /\ IF check_due(clock) /\ is_document_open(session) # "True"
       THEN /\ watching' = FALSE
            /\ lastOp' = [NoOp EXCEPT !.op = "connection_check",
                                      !.result = is_document_open(session)]
            /\ calls' = {}
            /\ UNCHANGED <<pc, clock>>
       ELSE /\ pc' = "poll"
            /\ clock' = IF check_due(clock) THEN 0 ELSE clock
            /\ UNCHANGED <<watching, lastOp, calls>>
    /\ UNCHANGED <<live, files, saveHeaders, session, events, edits, phase, snap, batch>>
    /\ UNCHANGED codecVars

\* The orders in which a set can be listed
Orders(S) == {q \in [1..Cardinality(S) -> S] : \A x \in S : \E i \in DOMAIN q : q[i] = x}

\* changes = watcher.check(): the changes since the last poll, in the order
\* the loop will take them
LoopPoll ==
    /\ watching /\ pc = "poll"
    /\ batch' \in Orders(events)
    /\ events' = {}
    /\ pc' = "changes"
    /\ UNCHANGED <<live, files, saveHeaders, session, calls, lastOp, edits, watching, phase,
                   snap, clock>>
    /\ UNCHANGED codecVars

\* A loop over the changes that a failure ends
remaining_changes_break(changes, result) ==
    IF result = "ok" THEN Tail(changes) ELSE <<>>

\* The changes of the poll left after one has been handled with the given
\* result: the except clause of the for loop continues with the next one
remaining_changes(changes, result) == Tail(changes)

\* The handling of one change
handle_change(ev, fs, lv, s, reject) ==
    IF ev.type = "deleted" THEN deleted_file(ev.path, lv, s)
    ELSE import_single_file(ev.path, fs, lv, s, reject)

\* The body of the for loop for the next change of the poll
LoopHandle ==
    /\ watching /\ pc = "changes" /\ batch # <<>>
    /\ \E reject \in BOOLEAN :
          LET r == handle_change(Head(batch), files, live, session, reject)
          IN /\ live' = r.live
             /\ calls' = r.calls
             /\ lastOp' = [NoOp EXCEPT !.op = IF Head(batch).type = "deleted"
                                              THEN "watch_deleted" ELSE "import_single_file",
                                       !.path = Head(batch).path,
                                       !.result = r.result,
                                       !.saved = r.saved,
                                       !.log = batch]
             /\ watching' = ~Fatal(r.result)
             /\ batch' = IF Fatal(r.result) THEN batch
                         ELSE remaining_changes(batch, r.result)
    /\ files' = IF Head(batch).type = "deleted" THEN files
                ELSE files_after_import(Head(batch).path, files, session)
    /\ events' = events \cup watcher_changes(files, files')
    /\ UNCHANGED <<saveHeaders, session, edits, phase, snap, pc, clock>>
    /\ UNCHANGED codecVars

\* A clock that does not advance
elapsed_stuck(c, d) == c

\* The time since the last check after d more seconds; at the interval and
\* beyond it the check is due whatever the value
elapsed(c, d) == Min({c + d, check_interval})

\* The end of a pass: time.sleep(0.5), then the next pass
LoopSleep ==
    /\ watching /\ pc = "changes" /\ batch = <<>>
    /\ \E d \in Elapses : clock' = elapsed(clock, d)
    /\ pc' = "check"
    /\ UNCHANGED <<live, files, saveHeaders, session, calls, lastOp, events, edits, watching,
                   phase, snap, batch>>
    /\ UNCHANGED codecVars

\* KeyboardInterrupt between two steps of the loop: watch_changes logs and
\* returns
LoopInterrupt ==
    /\ watching
    /\ watching' = FALSE
    /\ lastOp' = [NoOp EXCEPT !.op = "watch_changes", !.result = "return"]
    /\ UNCHANGED <<live, files, saveHeaders, session, calls, events, edits, phase, snap>>
    /\ UNCHANGED codecVars
    /\ UNCHANGED loopVars

LoopStep == LoopStart \/ LoopCheck \/ LoopPoll \/ LoopHandle \/ LoopSleep

LoopNext ==
    \/ LoopStart
    \/ LoopCheck
    \/ LoopPoll
    \/ LoopHandle
    \/ LoopSleep
    \/ LoopInterrupt
    \/ UserWrite
    \/ UserDelete
    \/ UserRename
    \/ HostGone

SpecLoop == LoopInit /\ [][LoopNext]_vars

\* LoopHandle is enabled exactly when a change of the poll is left
HandleEnabled == watching /\ pc = "changes" /\ batch # <<>>

\* The loop runs on: its code is sequential and every step of it returns.
\* The last conjunct is the weak fairness of LoopHandle with its enabling
\* condition written out.
SpecLoopLive ==
    /\ SpecLoop
    /\ WF_vars(LoopStart)
    /\ WF_vars(LoopCheck)
    /\ WF_vars(LoopPoll)
    /\ WF_vars(LoopSleep)
    /\ ([]<>(~HandleEnabled) \/ []<><<LoopHandle>>_vars)


----------------------------------------------------------------------------
(* Claims about the passes of the watch loop (checked under SpecLoop, the  *)
(* liveness claim under SpecLoopLive)                                      *)

SessionErrors == {DocumentClosedError, RPCError}

\* C21: when the interval has elapsed at the start of a pass, the step the
\* loop takes is the connection check, with no change of the poll pending;
\* with the session there the clock starts again and the poll follows; with
\* the session closed or lost the loop ends with the session error, no
\* component is changed, no host call is made and nothing is saved, whether
\* or not file changes wait to be reported.
C21_CheckWhenDue ==
    [][(LoopStep /\ pc = "check" /\ clock >= check_interval) =>
        /\ batch = <<>>
        /\ live' = live
        /\ IF session = "open"
           THEN watching' /\ pc' = "poll" /\ clock' = 0
           ELSE /\ ~watching'
                /\ lastOp'.op = "connection_check"
                /\ lastOp'.result \in SessionErrors
                /\ lastOp'.result = is_document_open(session)
                /\ calls' = {}
                /\ ~lastOp'.saved
                /\ events' = events]_vars

\* The check has ended the loop while a file change waited to be reported
C21_Witness ==
    /\ ~watching
    /\ lastOp.op = "connection_check"
    /\ lastOp.result \in SessionErrors
    /\ events # {}

\* C22: once the session is closed or lost while the loop runs, the loop
\* eventually ends, with the session error unless an interrupt ends it first.
C22_LostSessionEndsLoop ==
    (watching /\ pc # "start" /\ session # "open")
        ~> (~watching /\ lastOp.result \in SessionErrors \cup {"return"})

\* The check has ended the loop though no file was ever changed
C22_Witness ==
    /\ ~watching
    /\ lastOp.op = "connection_check"
    /\ lastOp.result \in SessionErrors
    /\ edits = 0
    /\ events = {}

\* C23: the loop ends on an interrupt, returning; on a closed or lost
\* session, with the session error; or on a fault of its setup, with that
\* fault; and in no other way.  It returns only on an interrupt.
C23_WaysToEnd ==
    [][(watching /\ ~watching') =>
        \/ LoopInterrupt /\ lastOp'.result = "return"
        \/ /\ LoopCheck \/ LoopHandle
           /\ session # "open"
           /\ lastOp'.result \in SessionErrors
        \/ LoopStart /\ lastOp'.result = "OSError"]_vars

\* The loop has ended with the session error raised by the handling of a change
C23_Witness ==
    /\ ~watching
    /\ lastOp.op \in {"import_single_file", "watch_deleted"}
    /\ lastOp.result \in SessionErrors

\* C24: the connection check and the poll are made with no change of the
\* last poll left; a change handled without ending the loop leaves the other
\* changes of the poll to be handled next; the loop sleeps only when none is
\* left.
C24_PollIsDrained ==
    [][LoopStep =>
        /\ pc \in {"check", "poll"} => batch = <<>>
        /\ (pc = "changes" /\ batch # <<>> /\ watching') =>
               batch' = Tail(batch) /\ pc' = "changes"
        /\ (pc = "changes" /\ pc' # "changes") => batch = <<>>]_vars

\* The first of the two changes of a poll has failed and the second one is
\* next
C24_Witness ==
    /\ watching
    /\ pc = "changes"
    /\ lastOp.result = VBAError
    /\ Len(lastOp.log) = 2
    /\ batch = Tail(lastOp.log)


----------------------------------------------------------------------------
(* The error classifier, the session probe, the constructors and the       *)
(* import content, called on their own on every input of a bounded set     *)

MaxMessageLen == 2

\* Pieces of the messages of exceptions: a message is a sequence of them
MessageWords ==
    {"RPC server", "rpc server", "Rpc-Server", "Remote Procedure Call", "0x800706BA",
     "0x800706ba", "-2147023174", "is unavailable", "Object was deleted"}

Messages == UNION {[1..k -> MessageWords] : k \in 1..MaxMessageLen}

\* str.lower() on the pieces of a message
LowerWord(w) == CASE w \in {"RPC server", "rpc server"} -> "rpc server"
                  [] w = "Rpc-Server" -> "rpc-server"
                  [] w = "Remote Procedure Call" -> "remote procedure call"
                  [] w \in {"0x800706BA", "0x800706ba"} -> "0x800706ba"
                  [] OTHER -> w

\* rpc_indicators of check_rpc_error, as written
rpc_indicators ==
    {"rpc server", "rpc-server", "remote procedure call", "0x800706BA", "-2147023174"}

\* check_rpc_error on an exception with message error_str: an indicator is
\* looked for in the lowered message
check_rpc_error(error_str) ==
    \E i \in DOMAIN error_str : LowerWord(error_str[i]) \in rpc_indicators

\* The document as is_document_open finds it: doc is None, or the access to
\* doc.Name or doc.FullName raises an exception with a message, or FullName
\* is returned and is the handler's doc_path or another path
NoDocument == [doc |-> FALSE, error |-> <<>>, same |-> FALSE]

Documents ==
    {NoDocument} \cup {[doc |-> TRUE, error |-> e, same |-> b] :
                          e \in {<<>>} \cup Messages, b \in BOOLEAN}

\* A probe that answers False for every error that is no RPC error
is_document_open_on_false(d) ==
    IF ~d.doc THEN "False"
    ELSE IF d.error # <<>> THEN (IF check_rpc_error(d.error) THEN RPCError ELSE "False")
    ELSE IF d.same THEN "True" ELSE "False"

\* is_document_open on the document d: "True", "False" or the error raised
is_document_open_on(d) ==
    IF ~d.doc THEN "False"
    ELSE IF d.error # <<>>
         THEN (IF check_rpc_error(d.error) THEN RPCError ELSE DocumentClosedError)
    ELSE IF d.same THEN "True" ELSE "False"

\* OfficeVBAHandler.__init__(doc_path, vba_dir, encoding, verbose, save_headers)
OfficeVBAHandler_init(doc_path, vba_dir, encoding, verbose, save_headers) ==
    [doc_path |-> doc_path, vba_dir |-> vba_dir, encoding |-> encoding,
     verbose |-> verbose, save_headers |-> save_headers]

\* AccessVBAHandler.__init__(doc_path, vba_dir, encoding, save_headers,
\* verbose), which passes its arguments on by position
AccessVBAHandler_init(doc_path, vba_dir, encoding, save_headers, verbose) ==
    OfficeVBAHandler_init(doc_path, vba_dir, encoding, save_headers, verbose)

\* handler_class(doc_path=, vba_dir=, encoding=, verbose=, save_headers=):
\* the Word and Excel handlers have the constructor of OfficeVBAHandler
Handlers == {"Word", "Excel", "Access"}

NewHandler(class, verbose, save_headers) ==
    IF class = "Access"
    THEN AccessVBAHandler_init("doc", ROOT, "cp1252", save_headers, verbose)
    ELSE OfficeVBAHandler_init("doc", ROOT, "cp1252", verbose, save_headers)

\* Files of components that are no document modules: code without attribute
\* lines as export_vba writes it, and code that begins with the attribute
\* lines of the component or of another one
ImportPaths == {PathOf(NUtils, ".bas"), PathOf(NData, ".cls")}

CodeOf(name) ==
    {<<"x">>,
     AttrLine("Name", Quoted(name)) \o <<NL, "x">>,
     AttrLine("Name", Quoted(<<"Other">>)) \o <<NL, "x">>,
     ClassHeader(name, "False", "False") \o <<NL, "x">>}

HeaderOf(name) == {AttrLine("Name", Quoted(name)), ClassHeader(name, "False", "False")}

CallsInit ==
    /\ ret = [done |-> FALSE, value |-> ""]
    /\ \/ /\ fn = "check_rpc_error"
          /\ \E m \in {<<>>} \cup Messages : arg = [error |-> m]
          /\ files = EmptyMap
       \/ /\ fn = "is_document_open"
          /\ \E d \in Documents : arg = [document |-> d]
          /\ files = EmptyMap
       \/ /\ fn = "handler"
          /\ \E c \in Handlers, v \in BOOLEAN, h \in BOOLEAN :
                arg = [class |-> c, verbose |-> v, save_headers |-> h]
          /\ files = EmptyMap
       \/ /\ fn = "import_content"
          /\ \E p \in ImportPaths :
                /\ arg = [path |-> p]
                /\ \E c \in CodeOf(p.stem) :
                      \/ files = (p :> c)
                      \/ \E h \in HeaderOf(p.stem) :
                            files = (p :> c) @@ (with_suffix(p, ".header") :> h)
    /\ live = EmptyMap
    /\ saveHeaders = FALSE
    /\ session = "closed"
    /\ calls = {}
    /\ lastOp = NoOp
    /\ events = {}
    /\ edits = 0
    /\ watching = FALSE
    /\ phase = "none"
    /\ snap = NoSnap
    /\ pc = "start"
    /\ clock = 0
    /\ batch = <<>>

CallCheckRpcError ==
    /\ fn = "check_rpc_error" /\ ~ret.done
    /\ ret' = [done |-> TRUE, value |-> check_rpc_error(arg.error)]
    /\ UNCHANGED <<fn, arg>>
    /\ UNCHANGED projectVars

CallIsDocumentOpen ==
    /\ fn = "is_document_open" /\ ~ret.done
    /\ ret' = [done |-> TRUE, value |-> is_document_open_on(arg.document)]
    /\ UNCHANGED <<fn, arg>>
    /\ UNCHANGED projectVars

CallNewHandler ==
    /\ fn = "handler" /\ ~ret.done
    /\ ret' = [done |-> TRUE, value |-> NewHandler(arg.class, arg.verbose, arg.save_headers)]
    /\ UNCHANGED <<fn, arg>>
    /\ UNCHANGED projectVars

CallImportContent ==
    /\ fn = "import_content" /\ ~ret.done
    /\ ret' = [done |-> TRUE, value |-> import_content(arg.path, files)]
    /\ UNCHANGED <<fn, arg>>
    /\ UNCHANGED projectVars

CallsNext == CallCheckRpcError \/ CallIsDocumentOpen \/ CallNewHandler \/ CallImportContent

SpecCalls == CallsInit /\ [][CallsNext]_vars


----------------------------------------------------------------------------
(* Claims about these functions (checked under SpecCalls) *)

\* A message holds an indicator, whatever the case of its letters
HoldsIndicator(m) ==
    \E i \in DOMAIN m : \E ind \in rpc_indicators : LowerWord(m[i]) = LowerWord(ind)

\* A message holds one of the indicators that are written in lower case
Recognised(m) ==
    \E i \in DOMAIN m :
        LowerWord(m[i]) \in {"rpc server", "rpc-server", "remote procedure call", "-2147023174"}

\* The access to the document fails and the failure is none of the RPC class
ClosedDocument(d) == d.doc /\ d.error # <<>> /\ ~HoldsIndicator(d.error)

ProbeDone == fn = "is_document_open" /\ ret.done

C27_RpcIndicators ==
    (fn = "check_rpc_error" /\ ret.done) => (ret.value <=> HoldsIndicator(arg.error))

\* C28: a handler of any class has the save_headers and verbose it was
\* constructed with.
C28_HandlerFlags ==
    (fn = "handler" /\ ret.done) =>
        /\ ret.value.save_headers = arg.save_headers
        /\ ret.value.verbose = arg.verbose

\* C30: the content handed to the host has exactly one VB_Name line, which
\* names the component by the stem of the file.
C30_OneNameLine ==
    (fn = "import_content" /\ ret.done) =>
        /\ Cardinality(NameStarts(ret.value)) = 1
        /\ HostName(ret.value) = arg.path.stem


----------------------------------------------------------------------------
(* Batch import of a VBA directory with a subdirectory *)

\* A subdirectory of the VBA directory
SUBDIR == "Business"

Dirs == {ROOT, SUBDIR}

\* The code files of two components, each absent or in one directory
FolderStems == {<<NUtils, ".bas">>, <<NData, ".cls">>}

FolderTexts == {<<"x">>, <<"y">>}

FolderFiles ==
    {fs \in UNION {[D -> FolderTexts] :
                      D \in SUBSET {[dir |-> d, stem |-> n[1], ext |-> n[2]] :
                                       d \in Dirs, n \in FolderStems}} :
        \A p, q \in DOMAIN fs : p.stem = q.stem => p = q}

FoldersInit ==
    /\ CodecIdle
    /\ files \in FolderFiles
    /\ live \in {EmptyMap, NUtils :> Component(NUtils, VBEXT_CT_STDMODULE, <<"x">>)}
    /\ saveHeaders = FALSE
    /\ session = "open"
    /\ calls = {}
    /\ lastOp = NoOp
    /\ events = {}
    /\ edits = 0
    /\ watching = FALSE
    /\ phase = "none"
    /\ snap = NoSnap
    /\ pc = "start"
    /\ clock = 0
    /\ batch = <<>>

\* The import command on the directory; snap keeps the project and the
\* directory the command found
FolderImport ==
    /\ lastOp.op # "import_vba"
    /\ LET r == import_vba({}, live, files)
       IN live' = r.live /\ calls' = r.calls /\ lastOp' = r.op
    /\ snap' = [files |-> files, live |-> live]
    /\ UNCHANGED <<files, saveHeaders, session, events, edits, watching, phase>>
    /\ UNCHANGED codecVars
    /\ UNCHANGED loopVars

\* The user moves a code file to the other directory
UserMove ==
    /\ edits < MaxEdits
    /\ \E p \in DOMAIN files, d \in Dirs :
          /\ d # p.dir
          /\ files' = With(Without(files, p), [p EXCEPT !.dir = d], files[p])
    /\ edits' = edits + 1
    /\ lastOp' = NoOp
    /\ UNCHANGED <<live, saveHeaders, session, calls, events, watching, phase, snap>>
    /\ UNCHANGED codecVars
    /\ UNCHANGED loopVars

FoldersNext == FolderImport \/ UserMove

SpecFolders == FoldersInit /\ [][FoldersNext]_vars

\* The directory with every file moved to the root
Flat(fs) ==
    [p \in {[q EXCEPT !.dir = ROOT] : q \in DOMAIN fs} |->
        fs[CHOOSE q \in DOMAIN fs : [q EXCEPT !.dir = ROOT] = p]]

\* C26: the batch import finds the code files at any depth: after it the
\* project is what the import of the same files, all lying directly in the
\* VBA directory, makes of it.
C26_ImportFindsNestedFiles ==
    lastOp.op = "import_vba" => live = import_vba({}, snap.live, Flat(snap.files)).live

============================================================================
